---------------------------- MODULE Spec2Model ----------------------------
(***************************************************************************)
(* Change detection and Discord batching of DAKOSYS.                       *)
(*                                                                         *)
(*   - notify_tv_status_updates (notifications.py): rendering of the TV    *)
(*     status changes into fields, chunking at 1024 characters and packing *)
(*     of the fields into embeds.                                          *)
(*   - track_library_changes (size_overlay.py): the size diff of one       *)
(*     library against the stored snapshot.                                *)
(*   - TVStatusTracker.run (tv_status_tracker.py): the status comparison   *)
(*     of one show against the cached status.                              *)
(*   - trigger_run (web_server.py) and the scheduler loop (scheduler.py):  *)
(*     the manual and the scheduled runs of a service.                     *)
(*                                                                         *)
(* The strings of a report are modelled by their characters, as runs of    *)
(* Unicode code points; the names of the fields by their length.           *)
(***************************************************************************)
EXTENDS Integers, Sequences, FiniteSets, TLC

----------------------------------------------------------------------------
(* State of one call of notify_tv_status_updates *)

VARIABLES
    changes,            \* argument: category -> list of shows
    total_shows,        \* argument
    now,                \* the date that datetime.now() gives
    midnight,           \* the read of the clock before which midnight passes
    pc,                 \* position in the function
    embeds,             \* the embed objects created so far (the heap)
    current_embed,      \* reference to the embed being filled (index in embeds)
    all_embeds,         \* list of references to embeds
    current_char_count,
    status_idx,         \* position of the loop over order
    chunks,             \* chunks of the category being split
    chunk_idx,          \* i of enumerate(chunks), counted from 1
    block_text,         \* shows_text of the category rendered last
    derived,            \* every field value computed so far, by category
    warnings,           \* number of "Reached maximum number of embeds" warnings
    payload,            \* the embeds posted to the webhook
    ret                 \* the value returned to the caller

packVars ==
    << changes, total_shows, now, midnight, pc, embeds, current_embed,
       all_embeds, current_char_count, status_idx, chunks, chunk_idx,
       block_text, derived, warnings, payload, ret >>

\* State of one call of track_library_changes

VARIABLES
    library_type,       \* argument: "movie" or "show"
    current_data,       \* argument: the items of the library scan
    previous_sizes,     \* argument: the loaded snapshot, library_key -> entry
    given_sizes,        \* previous_sizes as it was when the call began
    diff_pc,            \* position in the function
    item_idx,           \* position of the loop over current_data
    item_changes,
    diff_ret,           \* the returned tuple
    diff_sorted         \* sorted_changes of run_size_overlay_service

diffVars ==
    << library_type, current_data, previous_sizes, given_sizes, diff_pc,
       item_idx, item_changes, diff_ret, diff_sorted >>

\* State of one run of TVStatusTracker.run

VARIABLES
    cache_file,         \* tv_status_cache.json: "absent", "corrupt" or its content
    tv_previous_status, \* previous_status
    tv_is_first_run,    \* is_first_run
    tv_current_status,  \* current_status
    tv_changes,         \* changes: category -> list of entries
    tv_processed,       \* total_shows_processed
    tv_last,            \* the show and the text of the last iteration
    tv_pc,
    tv_run,             \* the number of the run, counted from 1
    tv_known            \* the entries that a cache file has held of shows for
                        \* which no lookup since has given another text

tvVars ==
    << cache_file, tv_previous_status, tv_is_first_run, tv_current_status,
       tv_changes, tv_processed, tv_last, tv_pc, tv_run, tv_known >>

\* State of the manual and the scheduled runs of the services

VARIABLES
    run_status,         \* web_server.run_status: service -> bool
    threads,            \* the POST /api/run/{service} requests and their threads
    sched_job           \* the service whose job the scheduler loop is running

runVars == << run_status, threads, sched_job >>

\* State of the formatting of the changes of one library for the report

VARIABLES
    lib_changes,        \* changes_by_library[library]: the sorted records
    changes_text,       \* the lines of changes_text
    render_pc

renderVars == << lib_changes, changes_text, render_pc >>

\* State of one run of run_size_overlay_service over one library

VARIABLES
    CONFIG,             \* the configuration that trakt_auth.load_config() returned
    sizes_file,         \* previous_sizes.json: "absent", "corrupt" or its content
    sr_library,         \* the library: its type and the items of its scan
    sr_previous_sizes,  \* previous_sizes
    sr_loaded,          \* previous_sizes as load_previous_sizes returned it
    sr_changes,         \* significant_changes
    sr_reported,        \* library_changes[...]['changed_items'] of every library
    sr_created_files,   \* created_files is not empty
    sr_success,         \* success
    sr_saved,           \* the result of save_current_sizes
    sr_notification,    \* the notification that was dispatched
    sr_ret,             \* the value returned
    sr_pc

sizeRunVars ==
    << CONFIG, sizes_file, sr_library, sr_previous_sizes, sr_loaded, sr_changes, sr_reported,
       sr_created_files, sr_success, sr_saved, sr_notification, sr_ret, sr_pc >>

vars == << packVars, diffVars, tvVars, runVars, renderVars, sizeRunVars >>

\* an empty dictionary
EmptyDict == [ x \in {} |-> x ]

----------------------------------------------------------------------------
(* Generic helpers *)

Min(a, b) == IF a <= b THEN a ELSE b

Abs(x) == IF x < 0 THEN -x ELSE x

RECURSIVE Digits(_)
\* len(str(n)) for an integer n
Digits(n) ==
    IF n < 0 THEN 1 + Digits(0 - n)
    ELSE IF n < 10 THEN 1
    ELSE 1 + Digits(n \div 10)

RECURSIVE SumLensBetween(_, _, _)
\* sum(len(x) for x in lines[i..j]), by halves
SumLensBetween(lines, i, j) ==
    IF i > j THEN 0
    ELSE IF i = j THEN lines[i].len
    ELSE LET mid == (i + j) \div 2
         IN  SumLensBetween(lines, i, mid) + SumLensBetween(lines, mid + 1, j)

\* sum(len(x) for x in lines)
SumLens(lines) == SumLensBetween(lines, 1, Len(lines))

RECURSIVE FlattenBetween(_, _, _)
\* concatenation of ss[i..j], by halves
FlattenBetween(ss, i, j) ==
    IF i > j THEN <<>>
    ELSE IF i = j THEN ss[i]
    ELSE LET mid == (i + j) \div 2
         IN  FlattenBetween(ss, i, mid) \o FlattenBetween(ss, mid + 1, j)

\* concatenation of a sequence of sequences
Flatten(ss) == FlattenBetween(ss, 1, Len(ss))

----------------------------------------------------------------------------
(* Python strings *)
(* A str is kept as the sequence of its runs.  A run is a code point and   *)
(* the number of times it is repeated in a row; neighbouring runs hold     *)
(* different code points, so that equal strings are equal sequences.       *)

Run(ch, n) == [ ch |-> ch, n |-> n ]

\* ch * n
Rep(ch, n) == IF n <= 0 THEN <<>> ELSE << Run(ch, n) >>

\* s + t
Concat(s, t) ==
    IF s = <<>> THEN t
    ELSE IF t = <<>> THEN s
    ELSE IF s[Len(s)].ch = t[1].ch
    THEN SubSeq(s, 1, Len(s) - 1) \o << Run(t[1].ch, s[Len(s)].n + t[1].n) >> \o Tail(t)
    ELSE s \o t

RECURSIVE ConcatBetween(_, _, _)
\* ss[i] + ... + ss[j], by halves
ConcatBetween(ss, i, j) ==
    IF i > j THEN <<>>
    ELSE IF i = j THEN ss[i]
    ELSE LET mid == (i + j) \div 2
         IN  Concat(ConcatBetween(ss, i, mid), ConcatBetween(ss, mid + 1, j))

\* "".join(ss)
ConcatAll(ss) == ConcatBetween(ss, 1, Len(ss))

\* the str of the given code points
Str(points) == ConcatAll([ i \in DOMAIN points |-> Rep(points[i], 1) ])

\* the code points of a str, one by one
Chars(s) == Flatten([ k \in DOMAIN s |-> [ i \in 1 .. s[k].n |-> s[k].ch ] ])

\* len(s)
StrLen(s) == SumLens([ k \in DOMAIN s |-> [ len |-> s[k].n ] ])

EmptyString == <<>>

\* "\n" and "/"
Newline == 10

Slash == 47

\* str.isspace(): the characters that str.strip() removes
Whitespace ==
    { 9, 10, 11, 12, 13, 28, 29, 30, 31, 32, 133, 160, 5760 }
        \cup (8192 .. 8202) \cup { 8232, 8233, 8239, 8287, 12288 }

\* U+001C to U+001F: whitespace for str.strip(), not for int()
SeparatorControls == 28 .. 31

\* the whitespace that int() skips around a number
IntWhitespace == Whitespace \ SeparatorControls

\* a str without the characters of a set at its start and at its end
StripIn(s, set) ==
    LET Keeps(k) == s[k].ch \notin set
        kept == SelectSeq([ k \in DOMAIN s |-> k ], Keeps)
    IN  IF kept = <<>> THEN <<>> ELSE SubSeq(s, kept[1], kept[Len(kept)])

\* s.strip()
Strip(s) == StripIn(s, Whitespace)

\* s.split(sep) for a separator of one character: each part lies between two
\* separators or an end of the string, and r separators in a row have r - 1
\* empty parts between them
SplitOn(s, sep) ==
    LET IsSep(k) == s[k].ch = sep
        cuts == << 0 >> \o SelectSeq([ k \in DOMAIN s |-> k ], IsSep) \o << Len(s) + 1 >>
        Part(k) == SubSeq(s, cuts[k] + 1, cuts[k + 1] - 1)
        Empties(k) == IF cuts[k + 1] > Len(s) THEN <<>>
                      ELSE [ e \in 1 .. s[cuts[k + 1]].n - 1 |-> EmptyString ]
    IN  Flatten([ k \in 1 .. Len(cuts) - 1 |-> << Part(k) >> \o Empties(k) ])

\* sep.join(parts) for a separator of one character
JoinWith(parts, sep) ==
    ConcatAll([ k \in 1 .. 2 * Len(parts) - 1 |->
                  IF k % 2 = 1 THEN parts[(k + 1) \div 2] ELSE Rep(sep, 1) ])

----------------------------------------------------------------------------
(* int() of a str: notifications.py, line 300 *)

\* The code points of the digit zero of every script: the ten decimal digits
\* of a script follow one another from its zero on.
DecimalZeros ==
    { 48, 1632, 1776, 1984, 2406, 2534, 2662, 2790, 2918, 3046, 3174, 3302,
      3430, 3558, 3664, 3792, 3872, 4160, 4240, 6112, 6160, 6470, 6608, 6784,
      6800, 6992, 7088, 7232, 7248, 42528, 43216, 43264, 43472, 43504, 43600,
      44016, 65296, 66720, 68912, 69734, 69872, 69942, 70096, 70384, 70736,
      70864, 71248, 71360, 71472, 71904, 72016, 72784, 73040, 73120, 92768,
      92864, 93008, 120782, 120792, 120802, 120812, 120822, 123200, 123632,
      125264, 130032 }

\* the zeros of the scripts that a character may be a digit of
ZerosOf(ch) == { z \in DecimalZeros : z <= ch /\ ch <= z + 9 }

\* the value of a decimal digit, -1 for any other character
DigitValue(ch) ==
    IF ZerosOf(ch) = {} THEN -1 ELSE ch - (CHOOSE z \in ZerosOf(ch) : TRUE)

IsDigit(ch) == DigitValue(ch) >= 0

\* "_", "+" and "-"
Underscore == 95

PlusSign == 43

MinusSign == 45

\* the largest C int: datetime() raises OverflowError for an argument beyond
\* it or below -(CIntMax + 1)
CIntMax == 2147483647

\* sys.int_info.default_max_str_digits: int() raises ValueError for more
\* digits
MaxStrDigits == 4300

RECURSIVE ValueOfDigits(_)
\* the number of a sequence of digit values that denotes no more than CIntMax
ValueOfDigits(rest) ==
    IF rest = <<>> THEN 0
    ELSE 10 * ValueOfDigits(SubSeq(rest, 1, Len(rest) - 1)) + rest[Len(rest)]

\* a sequence of digit values without its leading zeros
DropZeros(digits) ==
    LET NotZero(k) == digits[k] # 0
        rest == SelectSeq([ k \in DOMAIN digits |-> k ], NotZero)
    IN  IF rest = <<>> THEN <<>> ELSE SubSeq(digits, rest[1], Len(digits))

\* the values of the digits of a string of digits and underscores
DigitsValue(body) ==
    LET digits == SelectSeq(body, IsDigit)
    IN  [ k \in DOMAIN digits |-> DigitValue(digits[k]) ]

\* decimal digits with single underscores between them
WellFormed(body) ==
    /\ body # <<>>
    /\ IsDigit(body[1])
    /\ IsDigit(body[Len(body)])
    /\ \A i \in 1 .. Len(body) :
         \/ IsDigit(body[i])
         \/ body[i] = Underscore /\ IsDigit(body[i - 1]) /\ IsDigit(body[i + 1])

\* a sequence of ten digit values, the first not 0, denotes no more than
\* CIntMax
TenDigitsFit(digits, high) ==
    \/ high < CIntMax \div 10
    \/ high = CIntMax \div 10 /\ digits[10] <= CIntMax % 10

\* a sequence of digit values without leading zeros denotes no more than
\* CIntMax
DigitsFit(digits) ==
    \/ Len(digits) < 10
    \/ Len(digits) = 10 /\ TenDigitsFit(digits, ValueOfDigits(SubSeq(digits, 1, 9)))

\* the digits of 2147483648
CIntMinDigits == << 2, 1, 4, 7, 4, 8, 3, 6, 4, 8 >>

\* The integer of a sign and of digit values without leading zeros.  A number
\* that is no C int is flagged and kept as the bound that it passes.
IntOfDigits(negative, digits) ==
    IF DigitsFit(digits)
    THEN [ error |-> FALSE, overflow |-> FALSE,
           value |-> IF negative THEN 0 - ValueOfDigits(digits) ELSE ValueOfDigits(digits) ]
    ELSE IF negative
    THEN [ error |-> FALSE, overflow |-> digits # CIntMinDigits, value |-> (0 - CIntMax) - 1 ]
    ELSE [ error |-> FALSE, overflow |-> TRUE, value |-> CIntMax ]

\* the integer of a sign and of the characters that follow it
IntOfBody(negative, body) ==
    IF ~WellFormed(body) \/ Len(SelectSeq(body, IsDigit)) > MaxStrDigits
    THEN [ error |-> TRUE, overflow |-> FALSE, value |-> 0 ]
    ELSE IntOfDigits(negative, DropZeros(DigitsValue(body)))

\* the integer that characters without whitespace around them denote
IntOfStripped(stripped) ==
    IF stripped # <<>> /\ stripped[1] \in { PlusSign, MinusSign }
    THEN IntOfBody(stripped[1] = MinusSign, Tail(stripped))
    ELSE IntOfBody(FALSE, stripped)

\* int(str): whitespace around the number, a sign, decimal digits of any
\* script with single underscores between them; anything else raises
\* ValueError
ParseInt(str) == IntOfStripped(Chars(StripIn(str, IntWhitespace)))

\* calendar.isleap
IsLeap(year) == year % 4 = 0 /\ (year % 100 # 0 \/ year % 400 = 0)

\* the number of days of a month
DaysIn(year, month) ==
    IF month = 2 THEN (IF IsLeap(year) THEN 29 ELSE 28)
    ELSE IF month \in { 4, 6, 9, 11 } THEN 30 ELSE 31

\* datetime(year, month, day) raises ValueError unless this holds
ValidDate(year, month, day) ==
    /\ year \in 1 .. 9999
    /\ month \in 1 .. 12
    /\ day \in 1 .. DaysIn(year, month)

----------------------------------------------------------------------------
(* Discord limits used by notify_tv_status_updates *)

MAX_FIELD_VALUE == 1024

MAX_FIELD_NAME == 256

MAX_FIELDS_PER_EMBED == 25

MAX_CHARS_PER_EMBED == 6000

MAX_EMBEDS == 10

MAX_DESCRIPTION == 4096

\* len("TV/Anime Status Updates")
TitleLen == 23

\* len("TV/Anime Status Updates (continued)")
ContinuedTitleLen == 35

\* "No details available"
NoDetails ==
    Str(<< 78, 111, 32, 100, 101, 116, 97, 105, 108, 115, 32, 97, 118, 97, 105,
           108, 97, 98, 108, 101 >>)

\* the display order of the status categories
order ==
    << "AIRING", "SEASON_PREMIERE", "SEASON_FINALE", "MID_SEASON_FINALE",
       "FINAL_EPISODE", "RETURNING", "DATE_CHANGED", "ENDED", "CANCELLED" >>

Statuses == { order[i] : i \in DOMAIN order }

\* len(status_names[status])
status_names_len(status) ==
    CASE status = "AIRING" -> 10
      [] status = "SEASON_PREMIERE" -> 16
      [] status = "SEASON_FINALE" -> 14
      [] status = "MID_SEASON_FINALE" -> 18
      [] status = "FINAL_EPISODE" -> 14
      [] status = "RETURNING" -> 15
      [] status = "DATE_CHANGED" -> 12
      [] status = "ENDED" -> 11
      [] status = "CANCELLED" -> 15

\* message = f"Processed {total_shows} shows. Found changes for {total_changes} shows."[:4096]
MessageLen(ts, tc) == Min(MAX_DESCRIPTION, 43 + Digits(ts) + Digits(tc))

----------------------------------------------------------------------------
(* Inputs of notify_tv_status_updates: changes, total_shows and the clock *)

\* largest number of shows in one status category
MaxShows == 53

NoDate == ""

\* "25/11", "10/03", "29/02", "31/02", "TBA", "5/11" followed by a tab,
\* "1/2147483648", "15/1" with the 1 of the day in N'Ko, and "1/2147483648"
\* with the month in N'Ko
Nov25 == Str(<< 50, 53, 47, 49, 49 >>)

Mar10 == Str(<< 49, 48, 47, 48, 51 >>)

Feb29 == Str(<< 50, 57, 47, 48, 50 >>)

Feb31 == Str(<< 51, 49, 47, 48, 50 >>)

Tba == Str(<< 84, 66, 65 >>)

Nov5Tab == Str(<< 53, 47, 49, 49, 9 >>)

HugeMonth == Str(<< 49, 47, 50, 49, 52, 55, 52, 56, 51, 54, 52, 56 >>)

Jan15NKo == Str(<< 1985, 53, 47, 49 >>)

HugeMonthNKo ==
    Str(<< 49, 47, 1986, 1985, 1988, 1991, 1988, 1992, 1987, 1990, 1988, 1992 >>)

\* "ENDED", and "Ended" followed by a blank
Ended == Str(<< 69, 78, 68, 69, 68 >>)

EndedBlank == Str(<< 69, 110, 100, 101, 100, 32 >>)

\* The i-th title of a category: a character that tells the titles apart
\* ("A" for the first), then n_x times "x", then n_blank blanks.
TitleOf(i, n_x, n_blank) ==
    ConcatAll(<< Rep(64 + i, 1), Rep(120, n_x), Rep(32, n_blank) >>)

\* The shows of one category as the tracker hands them over: n shows with
\* titles of 1 + n_x + n_blank characters.  The dates alternate between d1
\* and d2, so that sorting reorders the list.
MkShows(n, n_x, n_blank, d1, d2, new_status) ==
    [ i \in 1 .. n |->
        [ title      |-> TitleOf(i, n_x, n_blank),
          new_date   |-> IF i % 2 = 1 THEN d1 ELSE d2,
          new_status |-> new_status ] ]

\* n shows without a date whose titles are n_blank blanks
BlankTitles(n, n_blank) ==
    [ i \in 1 .. n |->
        [ title |-> Rep(32, n_blank), new_date |-> EmptyString, new_status |-> Ended ] ]

\* a show whose title holds a line break: 600 times "x", "\n", 600 times "y"
NewlineTitle ==
    << [ title      |-> ConcatAll(<< Rep(120, 600), Rep(Newline, 1), Rep(121, 600) >>),
         new_date   |-> EmptyString,
         new_status |-> Ended ] >>

\* a show whose title holds a line of blanks: 1020 times "x", "\n", 1030
\* blanks, "\n", "y"
BlankLineTitle ==
    << [ title      |-> ConcatAll(<< Rep(120, 1020), Rep(Newline, 1), Rep(32, 1030),
                                     Rep(Newline, 1), Rep(121, 1) >>),
         new_date   |-> EmptyString,
         new_status |-> Ended ] >>

\* 30 shows whose lines fill a chunk each and leave values of 200 characters:
\* "• ", a title of 198 characters and 823 blanks
ThirtyValues == MkShows(30, 197, 823, EmptyString, EmptyString, Ended)

\* 30 shows whose lines fill a chunk each and leave fields of 200 characters,
\* the name counted: the names have 15 characters ("Now Airing (30)"), 24
\* ("Now Airing (continued 1)") and 25
ThirtySizes ==
    [ i \in 1 .. 30 |->
        LET name_len == IF i = 1 THEN 15 ELSE IF i <= 10 THEN 24 ELSE 25
        IN  [ title      |-> TitleOf(i, 197 - name_len, 823 + name_len),
              new_date   |-> EmptyString,
              new_status |-> Ended ] ]

\* The sampled contents of the first category.  Titles of 990 characters give
\* one line per chunk and five fields per embed, so that 51 of them reach the
\* embed cap; 50 titles of 38 characters give 50 lines of 40 characters.
AiringSamples ==
    { <<>>,
      MkShows(1, 9, 0, Nov25, Nov25, Ended),
      MkShows(2, 9, 1, EmptyString, EmptyString, Ended),
      MkShows(3, 399, 0, Nov25, Mar10, Ended),
      MkShows(3, 399, 1, EmptyString, EmptyString, Ended),
      MkShows(1, 1021, 0, EmptyString, EmptyString, Ended),
      MkShows(1, 1029, 0, EmptyString, EmptyString, Ended),
      MkShows(1, 5999, 0, EmptyString, EmptyString, Ended),
      MkShows(50, 37, 0, EmptyString, EmptyString, Ended),
      MkShows(51, 989, 0, Nov25, Mar10, Ended),
      MkShows(MaxShows, 989, 0, EmptyString, Mar10, Ended),
      MkShows(2, 9, 0, Mar10, HugeMonth, Ended),
      MkShows(2, 9, 0, Jan15NKo, Mar10, Ended),
      MkShows(2, 9, 0, Mar10, HugeMonthNKo, Ended),
      BlankTitles(2, 1),
      NewlineTitle,
      BlankLineTitle,
      ThirtyValues,
      ThirtySizes }

\* The sampled date changes: a date that ends with a tab, a day that no
\* month has, a date without "/" and the 29th of February.
DateChangedSamples ==
    { <<>>,
      MkShows(1, 9, 0, Nov25, Nov25, Ended),
      MkShows(3, 399, 0, Nov25, Mar10, Ended),
      MkShows(1, 1029, 0, EmptyString, EmptyString, Ended),
      MkShows(3, 9, 0, Nov5Tab, Mar10, Ended),
      MkShows(3, 9, 0, Feb31, Mar10, Ended),
      MkShows(3, 9, 0, Tba, Feb29, Ended) }

\* The sampled ended shows: a new_status that ends with a blank and an empty
\* one.
EndedSamples ==
    { <<>>,
      MkShows(1, 9, 0, Nov25, Nov25, Ended),
      MkShows(2, 9, 0, Nov25, Mar10, EndedBlank),
      MkShows(2, 9, 0, EmptyString, EmptyString, EmptyString),
      MkShows(3, 399, 1, EmptyString, EmptyString, Ended),
      MkShows(1, 5999, 0, EmptyString, EmptyString, Ended) }

\* the categories that the sampled inputs fill
FilledStatuses == { "AIRING", "DATE_CHANGED", "ENDED" }

\* changes: the dictionary handed to notify_tv_status_updates
MkChanges(airing, date_changed, ended) ==
    [ s \in Statuses |->
        CASE s = "AIRING" -> airing
          [] s = "DATE_CHANGED" -> date_changed
          [] s = "ENDED" -> ended
          [] OTHER -> <<>> ]

\* a dictionary with a key that is no category of order
OtherChanges ==
    [ s \in Statuses \cup { "OTHER" } |->
        IF s = "OTHER" THEN MkShows(1, 9, 0, Nov25, Nov25, Ended) ELSE <<>> ]

\* no midnight passes during the call
NoMidnight == [ status |-> "NONE", reads |-> 0 ]

\* The clock of one call: datetime.now() as (day, month, year) at its start,
\* and the midnight that passes while the shows of a category are sorted,
\* after the given number of reads of the clock.  2028 is a leap year.
SteadyClock2027 ==
    [ now |-> [ day |-> 1, month |-> 6, year |-> 2027 ], midnight |-> NoMidnight ]

MidnightClocks ==
    { [ now |-> [ day |-> 25, month |-> 11, year |-> 2026 ],
        midnight |-> [ status |-> "AIRING", reads |-> 3 ] ],
      [ now |-> [ day |-> 31, month |-> 12, year |-> 2026 ],
        midnight |-> [ status |-> "DATE_CHANGED", reads |-> 1 ] ] }

\* the sampled dictionaries with dated shows, for the calls during which
\* midnight passes
DatedChanges ==
    { MkChanges(a, d, <<>>) :
        a \in { MkShows(1, 9, 0, Nov25, Nov25, Ended),
                MkShows(3, 399, 0, Nov25, Mar10, Ended),
                MkShows(2, 9, 0, Jan15NKo, Mar10, Ended) },
        d \in { <<>>,
                MkShows(3, 9, 0, Nov5Tab, Mar10, Ended),
                MkShows(3, 9, 0, Tba, Feb29, Ended) } }

\* six fields that fill an embed to MAX_CHARS_PER_EMBED with a description
\* of 45 characters: two more digits in it move the sixth field
SixThousand ==
    MkChanges(MkShows(5, 1015, 0, EmptyString, EmptyString, Ended), <<>>,
              MkShows(1, 706, 0, EmptyString, EmptyString, Ended))

\* the sampled calls: the dictionary and the clock
PackInputs ==
    { [ changes |-> MkChanges(a, d, e), clock |-> SteadyClock2027 ] :
        a \in AiringSamples, d \in DateChangedSamples, e \in EndedSamples }
    \cup { [ changes |-> c, clock |-> clock ] : c \in DatedChanges, clock \in MidnightClocks }
    \cup { [ changes |-> c, clock |-> SteadyClock2027 ] : c \in { OtherChanges, SixThousand } }

\* the day after a day
NextDay(today) ==
    IF today.day < DaysIn(today.year, today.month)
    THEN [ day |-> today.day + 1, month |-> today.month, year |-> today.year ]
    ELSE IF today.month < 12
    THEN [ day |-> 1, month |-> today.month + 1, year |-> today.year ]
    ELSE [ day |-> 1, month |-> 1, year |-> today.year + 1 ]

\* Every call of sort_by_date reads datetime.now() anew for the year (line
\* 302), for the month (line 304) and for the day (line 305).  The reads of
\* one sorted() are numbered, three for every show; the first j of them
\* come before a midnight, the others after it.
ClockReads(n, before, after, j) ==
    [ r \in 1 .. 3 * n |-> IF r <= j THEN before ELSE after ]

\* the reads of a clock that stands still
SteadyClock(n, today) == ClockReads(n, today, today, 0)

\* the year, the month and the day that the call for the k-th show reads
TodayOf(reads, k) ==
    [ day |-> reads[3 * k].day,
      month |-> reads[3 * k - 1].month,
      year |-> reads[3 * k - 2].year ]

----------------------------------------------------------------------------
(* Rendering of one category: notifications.py, lines 292-356 *)

\* datetime.max, and a date at midnight, as keys that compare
\* lexicographically
DatetimeMax == << 9999, 12, 31, 1 >>

Midnight(year, month, day) == << year, month, day, 0 >>

\* the OverflowError that datetime() raises, which line 311 does not catch:
\* in the place of a key
OverflowError == << 0, 0, 0, 0 >>

\* datetime(current_year, month, day), or datetime.max after its ValueError
DatetimeOrMax(year, month, day) ==
    IF ValidDate(year, month, day) THEN Midnight(year, month, day) ELSE DatetimeMax

\* lines 300-306: the datetime of a day and a month; a date that lies before
\* today is taken to be next year's
DatetimeOf(day, month, today) ==
    IF day.error \/ month.error THEN DatetimeMax
    ELSE IF day.overflow \/ month.overflow THEN OverflowError
    ELSE DatetimeOrMax(IF month.value < today.month
                          \/ (month.value = today.month /\ day.value < today.day)
                       THEN today.year + 1 ELSE today.year,
                       month.value, day.value)

\* lines 294-315 for a date string and the parts that "/" splits it into
DatetimeOfParts(date_str, parts, today) ==
    IF date_str = EmptyString THEN DatetimeMax
    ELSE IF Len(parts) = 1 THEN DatetimeMax
    ELSE IF Len(parts) # 2 THEN DatetimeMax
    ELSE DatetimeOf(ParseInt(parts[1]), ParseInt(parts[2]), today)

\* show.get('new_date', '')
NewDateOf(show) == IF "new_date" \in DOMAIN show THEN show.new_date ELSE EmptyString

\* sort_by_date: the key of a show, for the year, month and day that the
\* call reads.  A show without a date sorts last (datetime.max), and so
\* does one whose date has no "/" or does not parse as a day and a month.
sort_by_date(show, today) ==
    DatetimeOfParts(NewDateOf(show), SplitOn(NewDateOf(show), Slash), today)

KeyLess(k1, k2) ==
    \/ k1[1] < k2[1]
    \/ k1[1] = k2[1] /\ k1[2] < k2[2]
    \/ k1[1] = k2[1] /\ k1[2] = k2[2] /\ k1[3] < k2[3]
    \/ k1[1] = k2[1] /\ k1[2] = k2[2] /\ k1[3] = k2[3] /\ k1[4] < k2[4]

\* the date strings of the shows and the dates read for them, each pair
\* with the key of a show of that date whose call reads that date
KeysOf(shows, reads) ==
    { << d, today, sort_by_date([ new_date |-> d ], today) >> :
        d \in { NewDateOf(shows[i]) : i \in DOMAIN shows },
        today \in { TodayOf(reads, i) : i \in DOMAIN shows } }

\* the key of the k-th show
KeyOfShow(shows, reads, keyed, k) ==
    (CHOOSE e \in keyed : e[1] = NewDateOf(shows[k]) /\ e[2] = TodayOf(reads, k))[3]

\* the keys of the shows
ShowKeys(shows, reads, keyed) ==
    { KeyOfShow(shows, reads, keyed, k) : k \in DOMAIN shows }

\* a call of sort_by_date leaves with an OverflowError
SortRaises(shows, reads) ==
    OverflowError \in ShowKeys(shows, reads, KeysOf(shows, reads))

\* the least key of a non-empty set of keys
MinKey(keys) == CHOOSE k \in keys : \A other \in keys : ~KeyLess(other, k)

\* the shows at the given positions
ShowsAt(shows, positions) == [ p \in DOMAIN positions |-> shows[positions[p]] ]

RECURSIVE SortByKeys(_, _, _, _)
\* the shows in ascending key order; shows with equal keys keep their order
SortByKeys(shows, reads, keyed, keys) ==
    IF keys = {} THEN <<>>
    ELSE LET k == MinKey(keys)
             HasKey(i) == KeyOfShow(shows, reads, keyed, i) = k
         IN  ShowsAt(shows, SelectSeq([ i \in DOMAIN shows |-> i ], HasKey))
                \o SortByKeys(shows, reads, keyed, keys \ { k })

\* the sort for the keys of the shows
SortKeyed(shows, reads, keyed) ==
    SortByKeys(shows, reads, keyed, ShowKeys(shows, reads, keyed))

\* sorted(shows, key=sort_by_date): a stable sort
sorted_shows(shows, reads) == SortKeyed(shows, reads, KeysOf(shows, reads))

\* "• ", " - New date: ", " - ", " (" and ")"
Bullet == Str(<< 8226, 32 >>)

NewDateLabel == Str(<< 32, 45, 32, 78, 101, 119, 32, 100, 97, 116, 101, 58, 32 >>)

Dash == Str(<< 32, 45, 32 >>)

\* date_info = f" ({show['new_date']})" if show['new_date'] else ""
date_info(new_date) ==
    IF new_date = EmptyString THEN EmptyString
    ELSE ConcatAll(<< Str(<< 32, 40 >>), new_date, Str(<< 41 >>) >>)

\* Lines 344-351: the line of a show, with its "\n".
\*   DATE_CHANGED:     "• {title} - New date: {new_date}\n"
\*   ENDED, CANCELLED: "• {title} - {new_status}\n"
\*   otherwise:        "• {title}\n" or "• {title} ({new_date})\n"
RenderLine(status, show) ==
    IF status = "DATE_CHANGED"
    THEN ConcatAll(<< Bullet, show.title, NewDateLabel, show.new_date, Rep(Newline, 1) >>)
    ELSE IF status \in { "ENDED", "CANCELLED" }
    THEN ConcatAll(<< Bullet, show.title, Dash, show.new_status, Rep(Newline, 1) >>)
    ELSE ConcatAll(<< Bullet, show.title, date_info(show.new_date), Rep(Newline, 1) >>)

\* shows_text: the lines of the category in sorted order
shows_text(status, shows, reads) ==
    LET srt == sorted_shows(shows, reads)
    IN  ConcatAll([ i \in 1 .. Len(srt) |-> RenderLine(status, srt[i]) ])

\* x or "No details available"
OrNoDetails(x) == IF x = EmptyString THEN NoDetails ELSE x

\* field_name = f"{status_names.get(status, status)} ({len(shows)})"[:256]
field_name(status, n) ==
    [ status |-> status, cont |-> 0, count |-> n,
      len |-> Min(MAX_FIELD_NAME, status_names_len(status) + 3 + Digits(n)) ]

\* chunk_name = f"{status_names.get(status, status)} (continued {i})"[:256]
chunk_name(status, i) ==
    [ status |-> status, cont |-> i, count |-> 0,
      len |-> Min(MAX_FIELD_NAME, status_names_len(status) + 13 + Digits(i)) ]

----------------------------------------------------------------------------
(* Chunking of a long category: notifications.py, lines 386-403 *)

\* an iteration that forgets the line which did not fit the current chunk
ChunkStepDropping(state, line) ==
    IF StrLen(state.current_chunk) + StrLen(line) + 1 <= MAX_FIELD_VALUE
    THEN [ current_chunk |-> ConcatAll(<< state.current_chunk, line, Rep(Newline, 1) >>),
           chunks |-> state.chunks ]
    ELSE [ current_chunk |-> EmptyString,
           chunks |-> IF state.current_chunk # EmptyString
                      THEN Append(state.chunks, Strip(state.current_chunk))
                      ELSE state.chunks ]

\* lines 393-399: one iteration of "for line in lines"
ChunkStep(state, line) ==
    IF StrLen(state.current_chunk) + StrLen(line) + 1 <= MAX_FIELD_VALUE
    THEN [ current_chunk |-> ConcatAll(<< state.current_chunk, line, Rep(Newline, 1) >>),
           chunks |-> state.chunks ]
    ELSE [ current_chunk |-> Concat(line, Rep(Newline, 1)),
           chunks |-> IF state.current_chunk # EmptyString
                      THEN Append(state.chunks, Strip(state.current_chunk))
                      ELSE state.chunks ]

RECURSIVE ChunkIterations(_, _, _, _)
\* the iterations for lines[i..j], the first half of them and then the second
ChunkIterations(lines, i, j, state) ==
    IF i > j THEN state
    ELSE IF i = j THEN ChunkStep(state, lines[i])
    ELSE LET mid == (i + j) \div 2
             half == ChunkIterations(lines, i, mid, state)
         IN  \* the test makes TLC evaluate the first half before the second
             IF half.current_chunk = EmptyString
             THEN ChunkIterations(lines, mid + 1, j, half)
             ELSE ChunkIterations(lines, mid + 1, j, half)

\* the loop over lines from lines[i] on, and lines 402-403 after it
ChunkLoop(lines, i, current_chunk, acc) ==
    LET final == ChunkIterations(lines, i, Len(lines),
                                 [ current_chunk |-> current_chunk, chunks |-> acc ])
    IN  IF final.current_chunk # EmptyString
        THEN Append(final.chunks, Strip(final.current_chunk))
        ELSE final.chunks

\* lines 387-403: chunks for lines = shows_text.strip().split('\n')
SplitChunks(text) == ChunkLoop(SplitOn(Strip(text), Newline), 1, EmptyString, <<>>)

----------------------------------------------------------------------------
(* notify_tv_status_updates as a state machine *)

RECURSIVE SumOfKeys(_, _)
\* the number of shows under the given keys of a dictionary
SumOfKeys(c, keys) ==
    IF keys = {} THEN 0
    ELSE LET k == CHOOSE x \in keys : TRUE
         IN  Len(c[k]) + SumOfKeys(c, keys \ { k })

\* sum(len(shows) for status, shows in changes.items()): every key counts
SumChanges(c) == SumOfKeys(c, DOMAIN c)

\* total_changes
total_changes == SumChanges(changes)

\* changes[status] if "status in changes", an empty list otherwise (line 334)
ShowsOf(status) == IF status \in DOMAIN changes THEN changes[status] ELSE <<>>

NoReturn == "pending"

\* The argument total_shows is the number of shows that the caller processed
\* (tv_status_tracker.py, line 741), whatever the number of changes: none,
\* as many as there are changes, or more by some digits.
TotalShowsSamples(n_changes) == { 0, n_changes, 250, 100000 }

PackInit ==
    /\ \E input \in PackInputs :
          /\ changes = input.changes
          /\ now = input.clock.now
          /\ midnight = input.clock.midnight
    /\ total_shows \in TotalShowsSamples(total_changes)
    /\ pc = "start"
    /\ embeds = <<>>
    /\ current_embed = 0
    /\ all_embeds = <<>>
    /\ current_char_count = 0
    /\ status_idx = 1
    /\ chunks = <<>>
    /\ chunk_idx = 1
    /\ block_text = EmptyString
    /\ derived = [ s \in Statuses |-> <<>> ]
    /\ warnings = 0
    /\ payload = <<>>
    /\ ret = NoReturn

\* lines 253-259: nothing to report
ReturnNoChanges ==
    /\ pc = "start"
    /\ total_changes = 0
    /\ pc' = "done"
    /\ ret' = FALSE
    /\ UNCHANGED << changes, total_shows, now, midnight, embeds, current_embed,
                    all_embeds, current_char_count, status_idx, chunks, chunk_idx,
                    block_text, derived, warnings, payload >>
    /\ UNCHANGED << diffVars, tvVars, runVars, renderVars, sizeRunVars >>

\* lines 261-330: the first embed carries the title and the description
CreateFirstEmbed ==
    /\ pc = "start"
    /\ total_changes # 0
    /\ embeds' = << [ title |-> "main", fields |-> <<>> ] >>
    /\ current_embed' = 1
    /\ current_char_count' = TitleLen + MessageLen(total_shows, total_changes)
    /\ pc' = "status"
    /\ UNCHANGED << changes, total_shows, now, midnight, all_embeds, status_idx,
                    chunks, chunk_idx, block_text, derived, warnings, payload, ret >>
    /\ UNCHANGED << diffVars, tvVars, runVars, renderVars, sizeRunVars >>

\* a test of the character budget alone
EmbedFullByChars(char_count, n_fields, field_size) ==
    char_count + field_size > MAX_CHARS_PER_EMBED

\* the condition of lines 364 and 416 on an embed that holds n_fields fields
\* and char_count characters
EmbedFullAt(char_count, n_fields, field_size) ==
    \/ char_count + field_size > MAX_CHARS_PER_EMBED
    \/ n_fields >= MAX_FIELDS_PER_EMBED

\* the condition of lines 364 and 416
EmbedFull(field_size) ==
    EmbedFullAt(current_char_count, Len(embeds[current_embed].fields), field_size)

\* len(all_embeds) >= 10 once current_embed has been appended (lines 367, 419)
CapReached == Len(all_embeds) + 1 >= MAX_EMBEDS

\* Lines 364-384 and 416-436: the field goes into the current embed, or the
\* current embed is closed and the field opens a new one, or, with ten embeds
\* closed, the loop is left (brk) and the field is not added.
PlaceField(field, brk) ==
    LET field_size == field.name.len + StrLen(field.value)
    IN  IF ~EmbedFull(field_size)
        THEN /\ embeds' = [ embeds EXCEPT ![current_embed].fields = Append(@, field) ]
             /\ current_char_count' = current_char_count + field_size
             /\ brk = FALSE
             /\ UNCHANGED << all_embeds, current_embed, warnings >>
        ELSE /\ all_embeds' = Append(all_embeds, current_embed)
             /\ IF CapReached
                THEN /\ warnings' = warnings + 1
                     /\ brk = TRUE
                     /\ UNCHANGED << embeds, current_embed, current_char_count >>
                ELSE /\ embeds' = Append(embeds, [ title |-> "continued",
                                                    fields |-> << field >> ])
                     /\ current_embed' = Len(embeds) + 1
                     /\ current_char_count' = ContinuedTitleLen + field_size
                     /\ brk = FALSE
                     /\ UNCHANGED warnings

\* the next iteration of "for status in order", or the end of the loop
NextStatus(i) == IF i >= Len(order) THEN "final" ELSE "status"

\* line 334: a category without changes is skipped
SkipStatus ==
    /\ pc = "status"
    /\ ShowsOf(order[status_idx]) = <<>>
    /\ pc' = NextStatus(status_idx)
    /\ status_idx' = status_idx + 1
    /\ UNCHANGED << changes, total_shows, now, midnight, embeds, current_embed,
                    all_embeds, current_char_count, chunks, chunk_idx, block_text,
                    derived, warnings, payload, ret >>
    /\ UNCHANGED << diffVars, tvVars, runVars, renderVars, sizeRunVars >>

\* the reads of the clock while the n shows of a category are sorted
ReadsOf(status, n) ==
    IF midnight.status = status
    THEN ClockReads(n, now, NextDay(now), midnight.reads)
    ELSE SteadyClock(n, now)

\* the date of the clock when the shows of a category have been sorted
ClockAfter(status) == IF midnight.status = status THEN NextDay(now) ELSE now

\* lines 335-384: a category whose text fits one field
AddSingleField ==
    /\ pc = "status"
    /\ ShowsOf(order[status_idx]) # <<>>
    /\ LET status == order[status_idx]
           reads == ReadsOf(status, Len(changes[status]))
       IN  /\ ~SortRaises(changes[status], reads)
           /\ LET text == shows_text(status, changes[status], reads)
                  field == [ name |-> field_name(status, Len(changes[status])),
                             value |-> OrNoDetails(Strip(text)) ]
              IN  /\ StrLen(text) <= MAX_FIELD_VALUE
                  /\ now' = ClockAfter(status)
                  /\ block_text' = text
                  /\ derived' = [ derived EXCEPT ![status] = << field.value >> ]
                  /\ \E brk \in BOOLEAN :
                       /\ PlaceField(field, brk)
                       /\ pc' = IF brk THEN "final" ELSE NextStatus(status_idx)
    /\ status_idx' = status_idx + 1
    /\ UNCHANGED << changes, total_shows, midnight, chunks, chunk_idx, payload, ret >>
    /\ UNCHANGED << diffVars, tvVars, runVars, renderVars, sizeRunVars >>

\* lines 385-403: a longer category is split into chunks
SplitStatus ==
    /\ pc = "status"
    /\ ShowsOf(order[status_idx]) # <<>>
    /\ LET status == order[status_idx]
           reads == ReadsOf(status, Len(changes[status]))
       IN  /\ ~SortRaises(changes[status], reads)
           /\ LET text == shows_text(status, changes[status], reads)
              IN  /\ StrLen(text) > MAX_FIELD_VALUE
                  /\ now' = ClockAfter(status)
                  /\ block_text' = text
                  /\ chunks' = SplitChunks(text)
                  /\ derived' = [ derived EXCEPT ![status] =
                                    [ k \in DOMAIN chunks' |-> OrNoDetails(chunks'[k]) ] ]
    /\ chunk_idx' = 1
    /\ pc' = "chunk"
    /\ UNCHANGED << changes, total_shows, midnight, embeds, current_embed, all_embeds,
                    current_char_count, status_idx, warnings, payload, ret >>
    /\ UNCHANGED << diffVars, tvVars, runVars, renderVars, sizeRunVars >>

\* line 338: the OverflowError of a call of sort_by_date leaves sorted() and
\* notify_tv_status_updates; nothing is sent and nothing is returned
RaiseOverflow ==
    /\ pc = "status"
    /\ ShowsOf(order[status_idx]) # <<>>
    /\ SortRaises(changes[order[status_idx]],
                  ReadsOf(order[status_idx], Len(changes[order[status_idx]])))
    /\ pc' = "raised"
    /\ ret' = "OverflowError"
    /\ UNCHANGED << changes, total_shows, now, midnight, embeds, current_embed,
                    all_embeds, current_char_count, status_idx, chunks, chunk_idx,
                    block_text, derived, warnings, payload >>
    /\ UNCHANGED << diffVars, tvVars, runVars, renderVars, sizeRunVars >>

\* lines 406-436: one iteration of "for i, chunk in enumerate(chunks)"; the
\* break of line 421 leaves this loop only
AddChunkField ==
    /\ pc = "chunk"
    /\ chunk_idx <= Len(chunks)
    /\ LET status == order[status_idx]
           field == [ name  |-> IF chunk_idx = 1
                                THEN field_name(status, Len(changes[status]))
                                ELSE chunk_name(status, chunk_idx - 1),
                      value |-> OrNoDetails(chunks[chunk_idx]) ]
       IN  \E brk \in BOOLEAN :
             /\ PlaceField(field, brk)
             /\ IF brk \/ chunk_idx = Len(chunks)
                THEN /\ pc' = NextStatus(status_idx)
                     /\ status_idx' = status_idx + 1
                     /\ chunk_idx' = 1
                     /\ chunks' = <<>>
                ELSE /\ pc' = "chunk"
                     /\ chunk_idx' = chunk_idx + 1
                     /\ UNCHANGED << status_idx, chunks >>
    /\ UNCHANGED << changes, total_shows, now, midnight, block_text, derived,
                    payload, ret >>
    /\ UNCHANGED << diffVars, tvVars, runVars, renderVars, sizeRunVars >>

\* "current_embed not in all_embeds": list membership compares by identity,
\* then by value
InAllEmbeds ==
    \E i \in DOMAIN all_embeds :
        \/ all_embeds[i] = current_embed
        \/ embeds[all_embeds[i]] = embeds[current_embed]

\* lines 438-445: the last embed is closed
CloseLastEmbed ==
    /\ pc = "final"
    /\ LET closed ==
            IF /\ embeds[current_embed].fields # <<>>
               /\ ~InAllEmbeds
               /\ Len(all_embeds) < MAX_EMBEDS
            THEN Append(all_embeds, current_embed)
            ELSE all_embeds
       IN  /\ all_embeds' = closed
           /\ IF closed = <<>>
              THEN pc' = "done" /\ ret' = FALSE
              ELSE pc' = "send" /\ ret' = ret
    /\ UNCHANGED << changes, total_shows, now, midnight, embeds, current_embed,
                    current_char_count, status_idx, chunks, chunk_idx, block_text,
                    derived, warnings, payload >>
    /\ UNCHANGED << diffVars, tvVars, runVars, renderVars, sizeRunVars >>

\* lines 447-497: the webhook is missing (False), answers 204 (True), answers
\* another status (False) or the request raises (False)
SendPayload ==
    /\ pc = "send"
    /\ \E outcome \in { "no_webhook", "204", "rejected", "raised" } :
         /\ payload' = IF outcome = "no_webhook" THEN <<>>
                       ELSE [ i \in DOMAIN all_embeds |-> embeds[all_embeds[i]] ]
         /\ ret' = (outcome = "204")
    /\ pc' = "done"
    /\ UNCHANGED << changes, total_shows, now, midnight, embeds, current_embed,
                    all_embeds, current_char_count, status_idx, chunks, chunk_idx,
                    block_text, derived, warnings >>
    /\ UNCHANGED << diffVars, tvVars, runVars, renderVars, sizeRunVars >>

PackNext ==
    \/ ReturnNoChanges
    \/ CreateFirstEmbed
    \/ SkipStatus
    \/ AddSingleField
    \/ SplitStatus
    \/ RaiseOverflow
    \/ AddChunkField
    \/ CloseLastEmbed
    \/ SendPayload

----------------------------------------------------------------------------
(* track_library_changes: size_overlay.py, lines 357-493 *)
(* Sizes are the two-decimal values of round(bytes / 2^30, 2), counted in  *)
(* hundredths of a GB.                                                     *)

\* Python's None for a size: no size is negative
None == -1

\* largest number of items that one library scan returns
MaxItems == 2

Titles == { "A", "B" }

\* 10.03, 10.05 and 10.50 GB against 10.04 and 10.50 GB: 10.05 - 10.04 is
\* above 0.01 as a float and 10.04 - 10.03 is not
CurrentSizeSamples == { 1003, 1005, 1050 }

PreviousSizeSamples == { 1004, 1050 }

CurrentCountSamples == { 12, 13 }

PreviousCountSamples == { 13 }

\* The items of process_movie_library have no episode_count, those of
\* process_show_library have one; a show without one is sampled as well,
\* since line 410 provides for it.  A show without any episode has
\* episode_count 0 and size_gb 0.0 (lines 193-210).
ItemSamples(ltype) ==
    IF ltype = "show"
    THEN { [ title |-> t, size_gb |-> sz, episode_count |-> c ] :
             t \in Titles, sz \in CurrentSizeSamples, c \in CurrentCountSamples }
         \cup { [ title |-> t, size_gb |-> 1050 ] : t \in Titles }
         \cup { [ title |-> t, size_gb |-> 0, episode_count |-> 0 ] : t \in Titles }
    ELSE { [ title |-> t, size_gb |-> sz ] : t \in Titles, sz \in CurrentSizeSamples }

\* the lists of at most n items
RECURSIVE SeqsUpTo(_, _)
SeqsUpTo(S, n) ==
    IF n = 0 THEN { <<>> }
    ELSE LET shorter == SeqsUpTo(S, n - 1)
         IN  shorter \cup { Append(q, x) : q \in { r \in shorter : Len(r) = n - 1 }, x \in S }

\* the partial maps from titles to values
PartialMaps(V) == UNION { [ D -> V ] : D \in SUBSET Titles }

\* the stored entry of a library: {'total_size', 'items', 'episodes', 'last_updated'}
RECURSIVE SumMap(_, _)
SumMap(f, D) ==
    IF D = {} THEN 0
    ELSE LET t == CHOOSE x \in D : TRUE IN f[t] + SumMap(f, D \ { t })

\* the stored episode counts: of shows only, and possibly not of every item
EpisodeMaps(ltype, items) ==
    IF ltype = "show"
    THEN { e \in PartialMaps(PreviousCountSamples) : DOMAIN e \subseteq DOMAIN items }
    ELSE { EmptyDict }

\* the orders in which a dictionary with the keys D can hold them
KeyOrders(D) ==
    { q \in [ 1 .. Cardinality(D) -> D ] :
        \A i, j \in 1 .. Cardinality(D) : q[i] = q[j] => i = j }

\* A dictionary keeps its keys in insertion order; item_order is the order of
\* the keys of 'items'.
StoredEntries(ltype) ==
    UNION { { [ total_size |-> SumMap(items, DOMAIN items),
                items |-> items,
                item_order |-> keys,
                episodes |-> eps ] :
              eps \in EpisodeMaps(ltype, items), keys \in KeyOrders(DOMAIN items) } :
            items \in PartialMaps(PreviousSizeSamples) }

\* library_key = f"{ltype}:{library_title}"
LibraryKey(ltype, library_title) == << ltype, library_title >>

\* dict.get(key, default)
Get(d, key, default) == IF key \in DOMAIN d THEN d[key] ELSE default

\* item.get('episode_count', 0) if ltype == 'show' else 0
EpisodeCount(ltype, item) ==
    IF ltype = "show" THEN Get(item, "episode_count", 0) ELSE 0

\* The sizes are Python floats: size_gb is round(bytes / 2^30, 2) (lines 142
\* and 204), the double nearest to a number of hundredths, and a difference
\* of two sizes is the double nearest to the exact difference of the two
\* doubles.  A double near h hundredths is kept as the pair of h and of its
\* distance from h / 100, counted in units of 2^-59 / 100: the doubles from
\* 0.01 on are multiples of 2^-59.  The sizes stay below 2^16 GB.

RECURSIVE Pow2(_)
Pow2(k) == IF k = 0 THEN 1 ELSE 2 * Pow2(k - 1)

RECURSIVE Pow2Mod25(_)
\* 2^k % 25
Pow2Mod25(k) == IF k = 0 THEN 1 ELSE (2 * Pow2Mod25(k - 1)) % 25

RECURSIVE ExponentFrom(_, _)
\* the binary exponent e of h / 100, from the candidate e on:
\* 2^e <= h / 100 < 2^(e + 1)
ExponentFrom(h, e) ==
    IF 100 * Pow2(e + 8) <= h * 128 THEN ExponentFrom(h, e + 1) ELSE e

Exponent(h) == ExponentFrom(h, -7)

\* Round to nearest, ties to even, of x units on a grid: r2 is the remainder
\* of the exact value by two steps of the grid
RoundOnGrid(x, grid, r2) ==
    IF r2 % grid = 0 THEN x
    ELSE IF 2 * (r2 % grid) < grid THEN x - (r2 % grid)
    ELSE IF 2 * (r2 % grid) > grid THEN x - (r2 % grid) + grid
    ELSE IF r2 < grid THEN x - r2
    ELSE x - (r2 % grid) + grid

\* The doubles with exponent e are the multiples of 100 * 2^(e + 7) units;
\* h * 2^59 units are 2^(e + 10) * (h * 2^(49 - e)) units.
RoundWithExponent(h, x, e) ==
    RoundOnGrid(x, 100 * Pow2(e + 7),
                (Pow2(e + 10) * (((h % 25) * Pow2Mod25(49 - e)) % 25) + x)
                    % (200 * Pow2(e + 7)))

\* the exponent of h / 100 plus x units: the one of h / 100, or the one below
\* when h / 100 is a power of two and x is negative
ExponentWith(h, x, e0) ==
    IF h * 128 = 100 * Pow2(e0 + 7) /\ x < 0 THEN e0 - 1 ELSE e0

\* the double nearest to h / 100 plus x units, for h >= 1, as its distance in
\* units from h / 100
RoundUnits(h, x) == RoundWithExponent(h, x, ExponentWith(h, x, Exponent(h)))

\* the double of a size of h hundredths, h >= 0
FloatOf(h) ==
    [ hundredths |-> h, units |-> IF h = 0 THEN 0 ELSE RoundUnits(h, 0) ]

FloatNeg(x) == [ hundredths |-> 0 - x.hundredths, units |-> 0 - x.units ]

\* the difference of the doubles of two sizes, current > previous, whose
\* distances from the sizes are c and p units
SubUnits(current, previous, c, p) == RoundUnits(current - previous, c.units - p.units)

\* current - previous for two sizes
FloatSub(current, previous) ==
    IF current = previous THEN [ hundredths |-> 0, units |-> 0 ]
    ELSE IF current > previous
    THEN [ hundredths |-> current - previous,
           units |-> SubUnits(current, previous, FloatOf(current), FloatOf(previous)) ]
    ELSE [ hundredths |-> current - previous,
           units |-> 0 - SubUnits(previous, current, FloatOf(previous), FloatOf(current)) ]

FloatLess(x, y) ==
    \/ x.hundredths < y.hundredths
    \/ x.hundredths = y.hundredths /\ x.units < y.units

\* abs()
FloatAbs(x) == IF FloatLess(x, FloatOf(0)) THEN FloatNeg(x) ELSE x

\* a size comparison without the tolerance of 0.01
SizeChangedAny(current_size, previous_size) == current_size # previous_size

\* abs(current_size - previous_size) > 0.01
SizeChanged(current_size, previous_size) ==
    FloatLess(FloatOf(1), FloatAbs(FloatSub(current_size, previous_size)))

\* Lines 405-455: the change record of one current item, or none.
ClassifyItem(ltype, item, previous_items, previous_episodes) ==
    LET title == item.title
        current_size == item.size_gb
        previous_size == Get(previous_items, title, None)
        current_episode_count == EpisodeCount(ltype, item)
        previous_episode_count ==
            IF ltype = "show" THEN Get(previous_episodes, title, 0) ELSE 0
        change_type ==
            IF previous_size = None THEN "NEW"
            ELSE IF ltype = "show" /\ current_episode_count > previous_episode_count
                 THEN "NEW_EPISODES"
            ELSE IF ltype = "show" /\ current_episode_count < previous_episode_count
                 THEN "REMOVED_EPISODES"
            ELSE IF SizeChanged(current_size, previous_size) THEN "QUALITY_CHANGE"
            ELSE "NONE"
        base == [ title |-> title,
                  previous_size |-> previous_size,
                  current_size |-> current_size,
                  change |-> IF change_type = "NEW" THEN current_size
                             ELSE current_size - previous_size,
                  type |-> change_type,
                  library_type |-> ltype ]
        count == [ episode_count |-> current_episode_count ]
        prev  == [ previous_episode_count |-> previous_episode_count ]
        added == [ episodes_added |-> current_episode_count - previous_episode_count ]
        removed == [ episodes_removed |-> previous_episode_count - current_episode_count ]
    IN  IF change_type = "NONE" THEN <<>>
        ELSE IF ltype # "show" THEN << base >>
        ELSE IF change_type = "NEW" THEN << base @@ count >>
        ELSE IF change_type = "NEW_EPISODES" THEN << base @@ count @@ prev @@ added >>
        ELSE IF change_type = "REMOVED_EPISODES" THEN << base @@ count @@ prev @@ removed >>
        ELSE << base @@ count @@ prev >>

\* a membership test that looks at the first item only
InCurrentFirstOnly(title, data) == data # <<>> /\ data[1].title = title

\* any(item['title'] == title for item in current_data)
InCurrent(title, data) == \E i \in DOMAIN data : data[i].title = title

RECURSIVE RemovedFromKeepingSize(_, _, _, _, _)
\* REMOVED records that carry the stored size as the current size
RemovedFromKeepingSize(keys, ltype, data, previous_items, previous_episodes) ==
    IF keys = <<>> THEN <<>>
    ELSE LET title == Head(keys)
             rest == RemovedFromKeepingSize(Tail(keys), ltype, data, previous_items,
                                            previous_episodes)
         IN  IF ~InCurrent(title, data)
             THEN << [ title |-> title,
                       previous_size |-> previous_items[title],
                       current_size |-> previous_items[title],
                       change |-> 0 - previous_items[title],
                       type |-> "REMOVED",
                       library_type |-> ltype ] >> \o rest
             ELSE rest

RECURSIVE RemovedFrom(_, _, _, _, _)
\* Lines 457-476: the REMOVED records, in the iteration order of
\* previous_items, whose keys in that order are keys.
RemovedFrom(keys, ltype, data, previous_items, previous_episodes) ==
    IF keys = <<>> THEN <<>>
    ELSE LET title == Head(keys)
             rest == RemovedFrom(Tail(keys), ltype, data, previous_items,
                                 previous_episodes)
             base == [ title |-> title,
                       previous_size |-> previous_items[title],
                       current_size |-> 0,
                       change |-> 0 - previous_items[title],
                       type |-> "REMOVED",
                       library_type |-> ltype ]
         IN  IF ~InCurrent(title, data)
             THEN << IF ltype = "show" /\ title \in DOMAIN previous_episodes
                     THEN base @@ [ previous_episode_count |-> previous_episodes[title] ]
                     ELSE base >> \o rest
             ELSE rest

\* Lines 478-491: the entry stored for the library.  The dictionaries keep the
\* last item of a title that occurs twice.
LastIndexOf(title, data) ==
    CHOOSE i \in DOMAIN data :
        /\ data[i].title = title
        /\ \A j \in DOMAIN data : data[j].title = title => j <= i

\* the keys of {item['title']: ... for item in current_data}: a title takes
\* its place at its first occurrence
FirstOccurrences(data) ==
    LET IsFirst(i) == \A j \in 1 .. i - 1 : data[j].title # data[i].title
        firsts == SelectSeq([ i \in DOMAIN data |-> i ], IsFirst)
    IN  [ k \in DOMAIN firsts |-> data[firsts[k]].title ]

NewEntry(ltype, data) ==
    LET titles == { data[i].title : i \in DOMAIN data }
    IN  [ total_size |-> SumLens([ i \in DOMAIN data |-> [ len |-> data[i].size_gb ] ]),
          items |-> [ t \in titles |-> data[LastIndexOf(t, data)].size_gb ],
          item_order |-> FirstOccurrences(data),
          episodes |-> IF ltype = "show"
                       THEN [ t \in titles |->
                                Get(data[LastIndexOf(t, data)], "episode_count", 0) ]
                       ELSE EmptyDict ]

\* run_size_overlay_service, lines 818-828: the order of the report.
\* The first component of the sort key.
Priority(type) ==
    CASE type = "NEW" -> 0
      [] type = "NEW_EPISODES" -> 1
      [] type = "QUALITY_CHANGE" -> 2
      [] type = "REMOVED_EPISODES" -> 3
      [] OTHER -> 4

\* x['change'] as the float it is: current_size for a NEW record (line 417),
\* -previous_size for a REMOVED one (line 461), the difference otherwise
ChangeFloat(x) ==
    IF x.type = "NEW" THEN FloatOf(x.current_size)
    ELSE IF x.type = "REMOVED" THEN FloatNeg(FloatOf(x.previous_size))
    ELSE FloatSub(x.current_size, x.previous_size)

\* a sort key on the signed change instead of its absolute value
SortKeySigned(x) == << Priority(x.type), FloatNeg(ChangeFloat(x)) >>

\* the key of the lambda: (priority, -abs(x.get('change', 0) or 0))
SortKey(x) == << Priority(x.type), FloatNeg(FloatAbs(ChangeFloat(x))) >>

\* the comparison of two pairs of integers
TupleLess(k1, k2) == k1[1] < k2[1] \/ (k1[1] = k2[1] /\ k1[2] < k2[2])

\* the comparison of two keys: a priority and a float
SortKeyLess(k1, k2) == k1[1] < k2[1] \/ (k1[1] = k2[1] /\ FloatLess(k1[2], k2[2]))

\* sorted() is stable: a record goes behind the records that do not compare
\* greater
RECURSIVE InsertSorted(_, _)
InsertSorted(x, done) ==
    IF done = <<>> THEN << x >>
    ELSE IF SortKeyLess(SortKey(x), SortKey(Head(done))) THEN << x >> \o done
    ELSE << Head(done) >> \o InsertSorted(x, Tail(done))

RECURSIVE sorted_changes(_)
sorted_changes(cs) ==
    IF cs = <<>> THEN <<>>
    ELSE InsertSorted(cs[Len(cs)], sorted_changes(SubSeq(cs, 1, Len(cs) - 1)))

\* lines 594-606 and 648-673: the changes that are counted and logged
Significant(ltype, cs) ==
    LET Counted(c) ==
            \/ c.type \in { "NEW", "REMOVED" }
            \/ c.type = "QUALITY_CHANGE" /\ Abs(c.change) > 0
            \/ ltype = "show" /\ c.type \in { "NEW_EPISODES", "REMOVED_EPISODES" }
    IN  SelectSeq(cs, Counted)

\* The configuration that trakt_auth.load_config() returns, by the sections
\* that the run reads: 'services', 'plex' and 'notifications'.  EmptyDict is
\* the configuration that "not CONFIG" holds of: None or an empty mapping.
SizeOverlayOn == [ size_overlay |-> [ enabled |-> TRUE ] ]

SizeOverlayOff == [ size_overlay |-> [ enabled |-> FALSE ] ]

PlexSection == [ url |-> "url", token |-> "token" ]

\* no 'services' section
NoServices == [ plex |-> PlexSection, notifications |-> [ enabled |-> TRUE ] ]

\* the service is disabled
ServiceDisabled ==
    [ services |-> SizeOverlayOff, plex |-> PlexSection,
      notifications |-> [ enabled |-> TRUE ] ]

\* the service is enabled and there is no 'plex' section
NoPlexSection == [ services |-> SizeOverlayOn, notifications |-> [ enabled |-> TRUE ] ]

\* the service is enabled: no 'notifications' section, notifications
\* disabled and notifications enabled
NoNotifications == [ services |-> SizeOverlayOn, plex |-> PlexSection ]

NotificationsOff ==
    [ services |-> SizeOverlayOn, plex |-> PlexSection,
      notifications |-> [ enabled |-> FALSE ] ]

NotificationsOn ==
    [ services |-> SizeOverlayOn, plex |-> PlexSection,
      notifications |-> [ enabled |-> TRUE ] ]

ConfigSamples ==
    { EmptyDict, NoServices, ServiceDisabled, NoPlexSection, NoNotifications,
      NotificationsOff, NotificationsOn }

\* CONFIG.get('services', {}).get('size_overlay', {}).get('enabled', False),
\* line 520
ServiceEnabled(config) ==
    Get(Get(Get(config, "services", EmptyDict), "size_overlay", EmptyDict),
        "enabled", FALSE)

\* CONFIG.get('notifications', {}).get('enabled', False), line 708
NotificationsEnabled(config) ==
    Get(Get(config, "notifications", EmptyDict), "enabled", FALSE)

----------------------------------------------------------------------------
(* track_library_changes as a state machine *)

library_title == "L"

library_key == LibraryKey(library_type, library_title)

\* lines 386-397
previous_items ==
    IF library_key \in DOMAIN previous_sizes /\ "items" \in DOMAIN previous_sizes[library_key]
    THEN previous_sizes[library_key].items ELSE EmptyDict

previous_episodes ==
    IF library_key \in DOMAIN previous_sizes /\ "episodes" \in DOMAIN previous_sizes[library_key]
    THEN previous_sizes[library_key].episodes ELSE EmptyDict

\* the keys of previous_items in the order of "for title, previous_size in
\* previous_items.items()" (line 458)
previous_item_order ==
    IF library_key \in DOMAIN previous_sizes /\ "items" \in DOMAIN previous_sizes[library_key]
    THEN previous_sizes[library_key].item_order ELSE <<>>

\* line 400
is_first_run == DOMAIN previous_items = {}

DiffInit ==
    /\ library_type \in { "movie", "show" }
    /\ current_data \in SeqsUpTo(ItemSamples(library_type), MaxItems)
    /\ \/ previous_sizes = EmptyDict
       \/ \E entry \in StoredEntries(library_type) :
            previous_sizes = [ k \in { library_key } |-> entry ]
    /\ given_sizes = previous_sizes
    /\ diff_pc = "items"
    /\ item_idx = 1
    /\ item_changes = <<>>
    /\ diff_ret = EmptyDict
    /\ diff_sorted = <<>>

\* lines 399-403: on a first run the change detection is skipped
SkipFirstRun ==
    /\ diff_pc = "items"
    /\ is_first_run
    /\ diff_pc' = "update"
    /\ UNCHANGED << diff_sorted, library_type, current_data, previous_sizes, given_sizes,
                    item_idx, item_changes, diff_ret >>
    /\ UNCHANGED << packVars, tvVars, runVars, renderVars, sizeRunVars >>

\* lines 404-455: one iteration of "for item in current_data"
DiffItem ==
    /\ diff_pc = "items"
    /\ ~is_first_run
    /\ item_idx <= Len(current_data)
    /\ item_changes' = item_changes \o
            ClassifyItem(library_type, current_data[item_idx],
                         previous_items, previous_episodes)
    /\ item_idx' = item_idx + 1
    /\ UNCHANGED << diff_sorted, library_type, current_data, previous_sizes, given_sizes,
                    diff_pc, diff_ret >>
    /\ UNCHANGED << packVars, tvVars, runVars, renderVars, sizeRunVars >>

\* lines 457-476: the items that were removed completely
DiffRemoved ==
    /\ diff_pc = "items"
    /\ ~is_first_run
    /\ item_idx > Len(current_data)
    /\ item_changes' = item_changes \o
            RemovedFrom(previous_item_order, library_type, current_data,
                        previous_items, previous_episodes)
    /\ diff_pc' = "update"
    /\ UNCHANGED << diff_sorted, library_type, current_data, previous_sizes, given_sizes,
                    item_idx, diff_ret >>
    /\ UNCHANGED << packVars, tvVars, runVars, renderVars, sizeRunVars >>

\* lines 372-380 and 478-493: the entry of the library is replaced and the
\* tuple (library_key, total_size, size_diff, item_changes) is returned
UpdatePreviousSizes ==
    /\ diff_pc = "update"
    /\ LET entry == NewEntry(library_type, current_data)
           previous_total ==
               IF library_key \in DOMAIN previous_sizes
                  /\ "total_size" \in DOMAIN previous_sizes[library_key]
               THEN previous_sizes[library_key].total_size ELSE 0
       IN  /\ previous_sizes' = [ k \in DOMAIN previous_sizes \cup { library_key } |->
                                    IF k = library_key THEN entry ELSE previous_sizes[k] ]
           /\ diff_ret' = [ library_key |-> library_key,
                            total_size |-> entry.total_size,
                            size_diff |-> entry.total_size - previous_total,
                            item_changes |-> item_changes ]
    /\ diff_pc' = "done"
    /\ UNCHANGED << diff_sorted, library_type, current_data, given_sizes, item_idx, item_changes >>
    /\ UNCHANGED << packVars, tvVars, runVars, renderVars, sizeRunVars >>

\* run_size_overlay_service, lines 708-828: the changed items of the library
\* are sorted for the report.  The sort is reached with notifications
\* enabled, in the branch "elif has_changes:" of line 761, and the library is
\* among library_changes only if its scan returned items (lines 585, 638).
\* A run with a change is not a first run: its sizes file was loaded.
SortChanges ==
    /\ diff_pc = "done"
    /\ NotificationsEnabled(CONFIG)
    /\ current_data # <<>>
    /\ Significant(library_type, diff_ret.item_changes) # <<>>
    /\ diff_sorted' = sorted_changes(diff_ret.item_changes)
    /\ diff_pc' = "sorted"
    /\ UNCHANGED << library_type, current_data, previous_sizes, given_sizes,
                    item_idx, item_changes, diff_ret >>
    /\ UNCHANGED << packVars, tvVars, runVars, renderVars, sizeRunVars >>

DiffNext ==
    \/ SkipFirstRun
    \/ DiffItem
    \/ DiffRemoved
    \/ UpdatePreviousSizes
    \/ SortChanges

----------------------------------------------------------------------------
(* TVStatusTracker.run: tv_status_tracker.py, lines 515-747 *)

\* largest number of shows that the libraries of one run hold
MaxTvShows == 2

\* largest number of runs of the tracker
MaxRuns == 2

\* The overlay texts that process_show returns (lines 238-297).  A text is
\* its wording and the "dd/mm" date that follows it, if any.
TextContents ==
    { [ words |-> w, date |-> NoDate ] :
        w \in { "UNKNOWN", "E N D E D", "C A N C E L L E D", "R E T U R N I N G" } }
    \cup
    { [ words |-> w, date |-> d ] :
        w \in { "AIRING", "SEASON FINALE" }, d \in { "10/03", "25/11" } }
    \cup
    { [ words |-> w, date |-> "25/11" ] :
        w \in { "MID SEASON FINALE", "FINAL EPISODE", "SEASON PREMIERE" } }

\* process_show found no status for the show (line 307)
NoShowInfo == [ words |-> "None", date |-> NoDate ]

\* text_content.split()[0]
status_text(text) ==
    CASE text.words = "UNKNOWN" -> "UNKNOWN"
      [] text.words = "E N D E D" -> "E"
      [] text.words = "C A N C E L L E D" -> "C"
      [] text.words = "R E T U R N I N G" -> "R"
      [] text.words = "AIRING" -> "AIRING"
      [] text.words = "SEASON FINALE" -> "SEASON"
      [] text.words = "MID SEASON FINALE" -> "MID"
      [] text.words = "FINAL EPISODE" -> "FINAL"
      [] text.words = "SEASON PREMIERE" -> "SEASON"

\* lines 565-569: the first word with a "/" and a digit
date_str(text) == text.date

\* needle in show_info['text_content']
Contains(text, needle) ==
    \/ text.words = needle
    \/ text.words = "MID SEASON FINALE" /\ needle = "SEASON FINALE"

\* lines 572-576: what is stored of a show
StatusEntry(text) ==
    [ status |-> status_text(text), date |-> date_str(text), text |-> text ]

\* lines 596-611 and 633-644: the category of a text; with_terminal is false
\* for a new show, for which ENDED and CANCELLED are not looked for
StatusKey(text, with_terminal) ==
    IF Contains(text, "AIRING") THEN "AIRING"
    ELSE IF Contains(text, "SEASON FINALE") THEN "SEASON_FINALE"
    ELSE IF Contains(text, "MID SEASON FINALE") THEN "MID_SEASON_FINALE"
    ELSE IF Contains(text, "FINAL EPISODE") THEN "FINAL_EPISODE"
    ELSE IF Contains(text, "SEASON PREMIERE") THEN "SEASON_PREMIERE"
    ELSE IF Contains(text, "RETURNING") THEN "RETURNING"
    ELSE IF with_terminal /\ Contains(text, "ENDED") THEN "ENDED"
    ELSE IF with_terminal /\ Contains(text, "CANCELLED") THEN "CANCELLED"
    ELSE "None"

\* a comparison of the cached status with the whole text instead of its
\* first word
ChangeCategoryByText(title, text, previous_status, first_run) ==
    IF title \in DOMAIN previous_status /\ previous_status[title].status # text.words
    THEN StatusKey(text, TRUE)
    ELSE "None"

\* Lines 578-673: the category that the show is added to, or "None".
ChangeCategory(title, text, previous_status, first_run) ==
    LET curr == StatusEntry(text)
    IN  IF title \in DOMAIN previous_status
        THEN LET prev == previous_status[title]
                 status_changed == prev.status # curr.status
                 date_changed == prev.date # curr.date /\ curr.date # NoDate
             IN  IF status_changed THEN StatusKey(text, TRUE)
                 ELSE IF date_changed THEN "DATE_CHANGED"
                 ELSE "None"
        ELSE IF curr.status \in { "ENDED", "CANCELLED" } THEN "None"
             ELSE LET status_key == StatusKey(text, FALSE)
                  IN  IF status_key = "None" THEN "None"
                      ELSE IF first_run
                           THEN IF curr.date # NoDate \/ status_key = "FINAL_EPISODE"
                                THEN status_key ELSE "None"
                           ELSE status_key

\* lines 617-625, 654-662 and 665-673: the entry added to the category
ChangeEntry(title, text, previous_status) ==
    LET curr == StatusEntry(text)
        known == title \in DOMAIN previous_status
    IN  [ title |-> title,
          prev_status |-> IF known THEN previous_status[title].status ELSE "NEW",
          new_status |-> curr.status,
          prev_date |-> IF known THEN previous_status[title].date ELSE NoDate,
          new_date |-> curr.date,
          full_text |-> curr.text ]

\* the cached entries that earlier runs can have written
CacheSamples ==
    { StatusEntry(t) :
        t \in { x \in TextContents :
                  x.words \in { "AIRING", "SEASON FINALE", "E N D E D" } } }

\* tv_status_cache.json: missing, unreadable, or a dictionary title -> entry
NoCache == [ state |-> "absent", content |-> EmptyDict ]

CorruptCache == [ state |-> "corrupt", content |-> EmptyDict ]

CacheOf(content) == [ state |-> "ok", content |-> content ]

TvInit ==
    /\ \/ cache_file \in { NoCache, CorruptCache }
       \/ \E D \in SUBSET Titles : \E content \in [ D -> CacheSamples ] :
            cache_file = CacheOf(content)
    /\ tv_previous_status = EmptyDict
    /\ tv_is_first_run = FALSE
    /\ tv_current_status = EmptyDict
    /\ tv_changes = [ s \in Statuses |-> <<>> ]
    /\ tv_processed = 0
    /\ tv_last = [ words |-> "None", date |-> NoDate, title |-> "" ]
    /\ tv_pc = "load"
    /\ tv_run = 1
    /\ tv_known = cache_file.content

\* lines 528-543: the cache is loaded; a missing file is a first run, an
\* unreadable one is logged and leaves previous_status empty
LoadCache ==
    /\ tv_pc = "load"
    /\ tv_is_first_run' = (cache_file.state = "absent")
    /\ tv_previous_status' =
         IF cache_file.state = "ok" THEN cache_file.content ELSE EmptyDict
    /\ tv_pc' = "shows"
    /\ UNCHANGED << cache_file, tv_current_status, tv_changes, tv_processed, tv_last,
                    tv_run, tv_known >>
    /\ UNCHANGED << packVars, diffVars, runVars, renderVars, sizeRunVars >>

\* lines 554-702: one iteration of "for show in library.all()"
ProcessShow ==
    /\ tv_pc = "shows"
    /\ tv_processed < MaxTvShows
    /\ \E title \in Titles, show_info \in TextContents \cup { NoShowInfo } :
         /\ tv_processed' = tv_processed + 1
         /\ tv_last' = [ words |-> show_info.words, date |-> show_info.date, title |-> title ]
         /\ tv_known' =
              IF /\ show_info # NoShowInfo
                 /\ title \in DOMAIN tv_known
                 /\ tv_known[title] # StatusEntry(show_info)
              THEN [ t \in DOMAIN tv_known \ { title } |-> tv_known[t] ]
              ELSE tv_known
         /\ IF show_info = NoShowInfo
            THEN UNCHANGED << tv_current_status, tv_changes >>
            ELSE LET key == ChangeCategory(title, show_info, tv_previous_status,
                                           tv_is_first_run)
                 IN  /\ tv_current_status' =
                          [ t \in DOMAIN tv_current_status \cup { title } |->
                              IF t = title THEN StatusEntry(show_info)
                              ELSE tv_current_status[t] ]
                     /\ tv_changes' =
                          IF key = "None" THEN tv_changes
                          ELSE [ tv_changes EXCEPT ![key] =
                                   Append(@, ChangeEntry(title, show_info,
                                                         tv_previous_status)) ]
    /\ UNCHANGED << cache_file, tv_previous_status, tv_is_first_run, tv_pc, tv_run >>
    /\ UNCHANGED << packVars, diffVars, runVars, renderVars, sizeRunVars >>

\* lines 729-734: the cache is written; an error is logged, and leaves the
\* file as it was (open fails) or unreadable (the write fails part-way)
SaveCache ==
    /\ tv_pc = "shows"
    /\ \/ /\ cache_file' = CacheOf(tv_current_status)
          /\ tv_known' = [ t \in DOMAIN tv_known \cup DOMAIN tv_current_status |->
                             IF t \in DOMAIN tv_known THEN tv_known[t]
                             ELSE tv_current_status[t] ]
       \/ UNCHANGED << cache_file, tv_known >>
       \/ cache_file' = CorruptCache /\ UNCHANGED tv_known
    /\ tv_pc' = "done"
    /\ UNCHANGED << tv_previous_status, tv_is_first_run, tv_current_status,
                    tv_changes, tv_processed, tv_last, tv_run >>
    /\ UNCHANGED << packVars, diffVars, runVars, renderVars, sizeRunVars >>

\* scheduler.py, lines 119-145 and 491-494: the job of the tracker is called
\* again, and run() starts over (lines 515-527) with the file as it is
NextRun ==
    /\ tv_pc = "done"
    /\ tv_run < MaxRuns
    /\ tv_run' = tv_run + 1
    /\ tv_previous_status' = EmptyDict
    /\ tv_is_first_run' = FALSE
    /\ tv_current_status' = EmptyDict
    /\ tv_changes' = [ s \in Statuses |-> <<>> ]
    /\ tv_processed' = 0
    /\ tv_last' = [ words |-> "None", date |-> NoDate, title |-> "" ]
    /\ tv_pc' = "load"
    /\ UNCHANGED << cache_file, tv_known >>
    /\ UNCHANGED << packVars, diffVars, runVars, renderVars, sizeRunVars >>

TvNext ==
    \/ LoadCache
    \/ ProcessShow
    \/ SaveCache
    \/ NextRun

----------------------------------------------------------------------------
(* Manual and scheduled runs of a service: web_server.py, lines 67-71 and  *)
(* 406-430; scheduler.py, lines 83-185 and 461-494                         *)

\* largest number of POST /api/run/{service} requests
MaxRequests == 2

\* _VALID_SERVICES
Services == { "anime_episode_type", "tv_status_tracker", "size_overlay" }

Requests == 1 .. MaxRequests

NoService == "none"

\* a request that has not been made
NotMade == [ service |-> NoService, pc |-> "none", started |-> FALSE ]

RunInit ==
    /\ run_status = [ s \in Services |-> FALSE ]
    /\ threads = [ r \in Requests |-> NotMade ]
    /\ sched_job = NoService

\* trigger_run, lines 407-412 and 429-430: the handler reads the flag and
\* either answers started == False or starts the thread of _run
TriggerRun(r, service) ==
    /\ threads[r].pc = "none"
    /\ threads' = [ threads EXCEPT ![r] =
                      IF run_status[service]
                      THEN [ service |-> service, pc |-> "refused", started |-> FALSE ]
                      ELSE [ service |-> service, pc |-> "spawned", started |-> TRUE ] ]
    /\ UNCHANGED << run_status, sched_job >>
    /\ UNCHANGED << packVars, diffVars, tvVars, renderVars, sizeRunVars >>

\* _run, line 417: the thread sets the flag and goes on to run_update
ThreadSetsFlag(r) ==
    /\ threads[r].pc = "spawned"
    /\ run_status' = [ run_status EXCEPT ![threads[r].service] = TRUE ]
    /\ threads' = [ threads EXCEPT ![r].pc = "running" ]
    /\ UNCHANGED sched_job
    /\ UNCHANGED << packVars, diffVars, tvVars, renderVars, sizeRunVars >>

\* _run, lines 418-427: run_update returns or raises, the flag is cleared
ThreadFinishes(r) ==
    /\ threads[r].pc = "running"
    /\ run_status' = [ run_status EXCEPT ![threads[r].service] = FALSE ]
    /\ threads' = [ threads EXCEPT ![r].pc = "finished" ]
    /\ UNCHANGED sched_job
    /\ UNCHANGED << packVars, diffVars, tvVars, renderVars, sizeRunVars >>

\* scheduler.py, lines 83-185 and 491-494: run_pending calls the job of a
\* service that is due; the job calls run_update and neither reads nor
\* writes run_status
SchedulerStartsJob(service) ==
    /\ sched_job = NoService
    /\ sched_job' = service
    /\ UNCHANGED << run_status, threads >>
    /\ UNCHANGED << packVars, diffVars, tvVars, renderVars, sizeRunVars >>

SchedulerJobReturns ==
    /\ sched_job # NoService
    /\ sched_job' = NoService
    /\ UNCHANGED << run_status, threads >>
    /\ UNCHANGED << packVars, diffVars, tvVars, renderVars, sizeRunVars >>

RunNext ==
    \/ \E r \in Requests, service \in Services : TriggerRun(r, service)
    \/ \E r \in Requests : ThreadSetsFlag(r)
    \/ \E r \in Requests : ThreadFinishes(r)
    \/ \E service \in Services : SchedulerStartsJob(service)
    \/ SchedulerJobReturns

----------------------------------------------------------------------------
(* The "Changes Detected" text of run_size_overlay_service: size_overlay.py, *)
(* lines 830-932                                                             *)

\* largest number of change records of one type in one library
MaxChangesPerType == 6

\* the types in the order of the sort key, which is the order of the sections
TypeOrder ==
    << "NEW", "NEW_EPISODES", "QUALITY_CHANGE", "REMOVED_EPISODES", "REMOVED" >>

\* The k-th of n records of a type, as track_library_changes returns them for
\* a show library and sorted_changes orders them: the absolute change falls
\* with k.
SampleRecord(type, k, n) ==
    LET delta == 10 * (n - k + 1)
    IN  [ title |-> << type, k >>,
          type |-> type,
          library_type |-> "show",
          previous_size |-> IF type = "NEW" THEN None ELSE 1000,
          current_size |-> CASE type = "NEW" -> delta
                             [] type = "REMOVED" -> 0
                             [] type \in { "NEW_EPISODES", "QUALITY_CHANGE" } -> 1000 + delta
                             [] OTHER -> 1000 - delta,
          change |-> CASE type = "NEW" -> delta
                       [] type = "REMOVED" -> 0 - 1000
                       [] type \in { "NEW_EPISODES", "QUALITY_CHANGE" } -> delta
                       [] OTHER -> 0 - delta ]

SampleRecords(type, n) == [ k \in 1 .. n |-> SampleRecord(type, k, n) ]

\* the numbers of records of one type that are sampled
CountSamples == { 0, 1, MaxChangesPerType - 1, MaxChangesPerType }

\* the records of a library with counts[i] records of the i-th type
SampleChanges(counts) ==
    Flatten([ i \in DOMAIN TypeOrder |-> SampleRecords(TypeOrder[i], counts[i]) ])

\* [c for c in changes if c['type'] == type]
OfType(cs, type) ==
    LET IsType(c) == c.type = type IN SelectSeq(cs, IsType)

\* items[:5]
FirstFive(items) == SubSeq(items, 1, Min(5, Len(items)))

\* the line of a record, and the line "...and N more" of a type
RecordLine(c) == [ kind |-> "record", type |-> c.type, title |-> c.title, count |-> 1 ]

MoreLine(type, n) == [ kind |-> "more", type |-> type, title |-> << type, 0 >>, count |-> n ]

\* lines 845-928, for one type: the first five records and, with more than
\* five, one line for the rest
TypeLines(cs, type) ==
    LET items == OfType(cs, type)
        shown == FirstFive(items)
    IN  [ i \in DOMAIN shown |-> RecordLine(shown[i]) ]
        \o (IF Len(items) > 5 THEN << MoreLine(type, Len(items) - 5) >> ELSE <<>>)

\* lines 841-930: the lines of one library after its header line
LibraryLines(cs) == Flatten([ i \in DOMAIN TypeOrder |-> TypeLines(cs, TypeOrder[i]) ])

RenderInit ==
    /\ \E counts \in [ DOMAIN TypeOrder -> CountSamples ] :
          lib_changes = SampleChanges(counts)
    /\ changes_text = <<>>
    /\ render_pc = "format"

\* lines 841-930: the changes of the library are formatted
FormatLibrary ==
    /\ render_pc = "format"
    /\ changes_text' = LibraryLines(lib_changes)
    /\ render_pc' = "done"
    /\ UNCHANGED lib_changes
    /\ UNCHANGED << packVars, diffVars, tvVars, runVars, sizeRunVars >>

RenderNext == FormatLibrary

----------------------------------------------------------------------------
(* run_size_overlay_service over one library: size_overlay.py, lines       *)
(* 502-997                                                                 *)

\* largest number of items that the scan of the library returns
MaxScan == 1

\* previous_sizes.json
NoSizesFile == [ state |-> "absent", content |-> EmptyDict ]

CorruptSizesFile == [ state |-> "corrupt", content |-> EmptyDict ]

SizesFileOf(content) == [ state |-> "ok", content |-> content ]

\* load_previous_sizes, lines 53-61
load_previous_sizes(file) == IF file.state = "ok" THEN file.content ELSE EmptyDict

\* track_library_changes as one call: the mapping it leaves and the records
\* it returns
TrackLibraryChanges(ltype, data, sizes) ==
    LET key == LibraryKey(ltype, library_title)
        stored(name) == key \in DOMAIN sizes /\ name \in DOMAIN sizes[key]
        items == IF stored("items") THEN sizes[key].items ELSE EmptyDict
        keys == IF stored("items") THEN sizes[key].item_order ELSE <<>>
        episodes == IF stored("episodes") THEN sizes[key].episodes ELSE EmptyDict
    IN  [ previous_sizes |->
            [ k \in DOMAIN sizes \cup { key } |->
                IF k = key THEN NewEntry(ltype, data) ELSE sizes[k] ],
          item_changes |->
            IF DOMAIN items = {} THEN <<>>
            ELSE Flatten([ i \in DOMAIN data |->
                             ClassifyItem(ltype, data[i], items, episodes) ])
                 \o RemovedFrom(keys, ltype, data, items, episodes) ]

\* lines 713-741, 760 and 955-958: the notification that is sent
Notification(first_run, has_changes, created_files) ==
    IF ~first_run /\ ~has_changes /\ ~created_files THEN "none"
    ELSE IF first_run THEN "initial"
    ELSE IF has_changes THEN "changes"
    ELSE "updated"

SizeRunInit ==
    /\ CONFIG \in ConfigSamples
    /\ \E ltype \in { "movie", "show" } :
         /\ \E scan \in SeqsUpTo(ItemSamples(ltype), MaxScan) :
              sr_library = [ type |-> ltype, scan |-> scan ]
         /\ \/ sizes_file \in { NoSizesFile, CorruptSizesFile, SizesFileOf(EmptyDict) }
            \/ \E entry \in StoredEntries(ltype) :
                 sizes_file = SizesFileOf([ k \in { LibraryKey(ltype, library_title) } |-> entry ])
    /\ sr_previous_sizes = EmptyDict
    /\ sr_loaded = EmptyDict
    /\ sr_changes = <<>>
    /\ sr_reported = <<>>
    /\ sr_created_files = FALSE
    /\ sr_success = TRUE
    /\ sr_saved = "pending"
    /\ sr_notification = "pending"
    /\ sr_ret = NoReturn
    /\ sr_pc = "config"

\* lines 514-522: without a configuration the run returns False, with the
\* service not enabled it returns True; nothing is loaded, saved or sent
LoadConfig ==
    /\ sr_pc = "config"
    /\ IF CONFIG = EmptyDict
       THEN sr_pc' = "done" /\ sr_ret' = FALSE /\ sr_notification' = "none"
       ELSE IF ~ServiceEnabled(CONFIG)
       THEN sr_pc' = "done" /\ sr_ret' = TRUE /\ sr_notification' = "none"
       ELSE sr_pc' = "directory" /\ UNCHANGED << sr_ret, sr_notification >>
    /\ UNCHANGED sr_loaded
    /\ UNCHANGED << CONFIG, sizes_file, sr_library, sr_previous_sizes, sr_changes, sr_reported,
                    sr_created_files, sr_success, sr_saved >>
    /\ UNCHANGED << packVars, diffVars, tvVars, runVars, renderVars >>

\* lines 525-535: the overlay directory exists or is made, or it cannot be
\* made and the run returns False
MakeOverlayDirectory ==
    /\ sr_pc = "directory"
    /\ \E usable \in BOOLEAN :
         IF usable
         THEN sr_pc' = "plex" /\ UNCHANGED << sr_ret, sr_notification >>
         ELSE sr_pc' = "done" /\ sr_ret' = FALSE /\ sr_notification' = "none"
    /\ UNCHANGED sr_loaded
    /\ UNCHANGED << CONFIG, sizes_file, sr_library, sr_previous_sizes, sr_changes, sr_reported,
                    sr_created_files, sr_success, sr_saved >>
    /\ UNCHANGED << packVars, diffVars, tvVars, runVars, renderVars >>

\* lines 548-551 and connect_to_plex, lines 74-83: the server is reached
\* with CONFIG['plex']; without that section, or when the server does not
\* answer, the run returns False
ConnectToPlex ==
    /\ sr_pc = "plex"
    /\ \E answers \in BOOLEAN :
         IF "plex" \in DOMAIN CONFIG /\ answers
         THEN sr_pc' = "load" /\ UNCHANGED << sr_ret, sr_notification >>
         ELSE sr_pc' = "done" /\ sr_ret' = FALSE /\ sr_notification' = "none"
    /\ UNCHANGED sr_loaded
    /\ UNCHANGED << CONFIG, sizes_file, sr_library, sr_previous_sizes, sr_changes, sr_reported,
                    sr_created_files, sr_success, sr_saved >>
    /\ UNCHANGED << packVars, diffVars, tvVars, runVars, renderVars >>

\* line 558
LoadPreviousSizes ==
    /\ sr_pc = "load"
    /\ sr_previous_sizes' = load_previous_sizes(sizes_file)
    /\ sr_loaded' = load_previous_sizes(sizes_file)
    /\ sr_pc' = "library"
    /\ UNCHANGED << CONFIG, sizes_file, sr_library, sr_changes, sr_reported, sr_created_files,
                    sr_success, sr_saved, sr_notification, sr_ret >>
    /\ UNCHANGED << packVars, diffVars, tvVars, runVars, renderVars >>

\* lines 574-691, for a scan that returned items: the changes are tracked and
\* the overlay file is written (or not: success = False)
TrackLibrary ==
    /\ sr_pc = "library"
    /\ sr_library.scan # <<>>
    /\ LET tracked == TrackLibraryChanges(sr_library.type, sr_library.scan,
                                          sr_previous_sizes)
       IN  /\ sr_previous_sizes' = tracked.previous_sizes
           /\ sr_changes' = Significant(sr_library.type, tracked.item_changes)
           /\ sr_reported' = tracked.item_changes
    /\ \E written \in BOOLEAN :
         /\ sr_created_files' = written
         /\ sr_success' = written
    /\ sr_pc' = "save"
    /\ UNCHANGED sr_loaded
    /\ UNCHANGED << CONFIG, sizes_file, sr_library, sr_saved, sr_notification, sr_ret >>
    /\ UNCHANGED << packVars, diffVars, tvVars, runVars, renderVars >>

\* lines 585 and 638: "if movies_info:" / "if shows_info:" is false
SkipEmptyLibrary ==
    /\ sr_pc = "library"
    /\ sr_library.scan = <<>>
    /\ sr_pc' = "save"
    /\ UNCHANGED sr_loaded
    /\ UNCHANGED << CONFIG, sizes_file, sr_library, sr_previous_sizes, sr_changes, sr_reported,
                    sr_created_files, sr_success, sr_saved, sr_notification, sr_ret >>
    /\ UNCHANGED << packVars, diffVars, tvVars, runVars, renderVars >>

\* line 694 and save_current_sizes, lines 63-72: the file is written, or the
\* open fails and leaves it, or the write fails part-way
SaveCurrentSizes ==
    /\ sr_pc = "save"
    /\ \/ sizes_file' = SizesFileOf(sr_previous_sizes) /\ sr_saved' = "saved"
       \/ UNCHANGED sizes_file /\ sr_saved' = "failed"
       \/ sizes_file' = CorruptSizesFile /\ sr_saved' = "failed"
    /\ sr_pc' = "notify"
    /\ UNCHANGED sr_loaded
    /\ UNCHANGED << CONFIG, sr_library, sr_previous_sizes, sr_changes, sr_reported,
                    sr_created_files, sr_success, sr_notification, sr_ret >>
    /\ UNCHANGED << packVars, diffVars, tvVars, runVars, renderVars >>

\* lines 707-997: with notifications enabled the notification is chosen and
\* sent (an error of the sending is logged), and when nothing is to be
\* reported the run returns True at line 719; otherwise success is returned
NotifyAndReturn ==
    /\ sr_pc = "notify"
    /\ LET first_run == sizes_file.state = "absent" \/ sr_previous_sizes = EmptyDict
           has_changes == sr_changes # <<>>
           kind == IF NotificationsEnabled(CONFIG)
                   THEN Notification(first_run, has_changes, sr_created_files)
                   ELSE "none"
       IN  /\ sr_notification' = kind
           /\ sr_ret' = IF NotificationsEnabled(CONFIG) /\ kind = "none" THEN TRUE
                        ELSE sr_success
    /\ sr_pc' = "done"
    /\ UNCHANGED sr_loaded
    /\ UNCHANGED << CONFIG, sizes_file, sr_library, sr_previous_sizes, sr_changes, sr_reported,
                    sr_created_files, sr_success, sr_saved >>
    /\ UNCHANGED << packVars, diffVars, tvVars, runVars, renderVars >>

SizeRunNext ==
    \/ LoadConfig
    \/ MakeOverlayDirectory
    \/ ConnectToPlex
    \/ LoadPreviousSizes
    \/ TrackLibrary
    \/ SkipEmptyLibrary
    \/ SaveCurrentSizes
    \/ NotifyAndReturn

----------------------------------------------------------------------------
(* Specifications: each entry point on its own, the others at rest *)

PackIdle ==
    /\ changes = MkChanges(<<>>, <<>>, <<>>)
    /\ total_shows = 0
    /\ now = [ day |-> 1, month |-> 1, year |-> 2026 ]
    /\ midnight = NoMidnight
    /\ pc = "idle"
    /\ embeds = <<>>
    /\ current_embed = 0
    /\ all_embeds = <<>>
    /\ current_char_count = 0
    /\ status_idx = 1
    /\ chunks = <<>>
    /\ chunk_idx = 1
    /\ block_text = EmptyString
    /\ derived = [ s \in Statuses |-> <<>> ]
    /\ warnings = 0
    /\ payload = <<>>
    /\ ret = NoReturn

DiffIdle ==
    /\ library_type = "movie"
    /\ current_data = <<>>
    /\ previous_sizes = EmptyDict
    /\ given_sizes = EmptyDict
    /\ diff_pc = "idle"
    /\ item_idx = 1
    /\ item_changes = <<>>
    /\ diff_ret = EmptyDict
    /\ diff_sorted = <<>>

RunIdle ==
    /\ run_status = [ s \in Services |-> FALSE ]
    /\ threads = [ r \in Requests |-> NotMade ]
    /\ sched_job = NoService

RenderIdle ==
    /\ lib_changes = <<>>
    /\ changes_text = <<>>
    /\ render_pc = "idle"

SizeRunIdle ==
    /\ CONFIG = NotificationsOn
    /\ sizes_file = NoSizesFile
    /\ sr_library = [ type |-> "movie", scan |-> <<>> ]
    /\ sr_previous_sizes = EmptyDict
    /\ sr_loaded = EmptyDict
    /\ sr_changes = <<>>
    /\ sr_reported = <<>>
    /\ sr_created_files = FALSE
    /\ sr_success = TRUE
    /\ sr_saved = "pending"
    /\ sr_notification = "pending"
    /\ sr_ret = NoReturn
    /\ sr_pc = "idle"

TvIdle ==
    /\ cache_file = NoCache
    /\ tv_previous_status = EmptyDict
    /\ tv_is_first_run = FALSE
    /\ tv_current_status = EmptyDict
    /\ tv_changes = [ s \in Statuses |-> <<>> ]
    /\ tv_processed = 0
    /\ tv_last = [ words |-> "None", date |-> NoDate, title |-> "" ]
    /\ tv_pc = "idle"
    /\ tv_run = 1
    /\ tv_known = EmptyDict

\* notify_tv_status_updates
Init == PackInit /\ DiffIdle /\ TvIdle /\ RunIdle /\ RenderIdle /\ SizeRunIdle

Next == PackNext

Spec == Init /\ [][Next]_vars

\* track_library_changes
DiffSpecInit == DiffInit /\ PackIdle /\ TvIdle /\ RunIdle /\ RenderIdle /\ SizeRunIdle

DiffSpec == DiffSpecInit /\ [][DiffNext]_vars

\* TVStatusTracker.run
TvSpecInit == TvInit /\ PackIdle /\ DiffIdle /\ RunIdle /\ RenderIdle /\ SizeRunIdle

TvSpec == TvSpecInit /\ [][TvNext]_vars

\* trigger_run and the scheduler loop
RunSpecInit == RunInit /\ PackIdle /\ DiffIdle /\ TvIdle /\ RenderIdle /\ SizeRunIdle

RunSpec == RunSpecInit /\ [][RunNext]_vars

\* the formatting of the changes of a library
RenderSpecInit == RenderInit /\ PackIdle /\ DiffIdle /\ TvIdle /\ RunIdle /\ SizeRunIdle

RenderSpec == RenderSpecInit /\ [][RenderNext]_vars

\* run_size_overlay_service
SizeRunSpecInit ==
    SizeRunInit /\ PackIdle /\ DiffIdle /\ TvIdle /\ RunIdle /\ RenderIdle

SizeRunSpec == SizeRunSpecInit /\ [][SizeRunNext]_vars

----------------------------------------------------------------------------
(* Properties of notify_tv_status_updates, checked under Spec *)

\* field_size = len(field_name) + len(field_value) (lines 362 and 414)
FieldSize(field) == field.name.len + StrLen(field.value)

\* the fields of a list of embeds, in the order of the payload
FieldsOf(batches) == Flatten([ i \in DOMAIN batches |-> batches[i].fields ])

\* The characters of an embed that count against the limit: the title and
\* the description of the first embed (line 330), the title of a continuation
\* embed (line 380), and the name and value of every field.
EmbedChars(e) ==
    (IF e.title = "main"
     THEN TitleLen + MessageLen(total_shows, total_changes)
     ELSE ContinuedTitleLen)
    + SumLens([ j \in DOMAIN e.fields |-> [ len |-> FieldSize(e.fields[j]) ] ])

\* C1: every field of the payload handed to the webhook has a value of at
\* most 1024 characters and a name of at most 256 characters, also when a
\* category holds a single line longer than 1024 characters.
C1_FieldsWithinLimits ==
    \A i \in DOMAIN payload : \A j \in DOMAIN payload[i].fields :
        /\ StrLen(payload[i].fields[j].value) <= MAX_FIELD_VALUE
        /\ payload[i].fields[j].name.len <= MAX_FIELD_NAME

\* C2: the outgoing payload never holds more than 10 embeds, whichever mix
\* of single-field and multi-chunk categories reaches the cap.
C2_AtMostMaxEmbeds ==
    /\ Len(all_embeds) <= MAX_EMBEDS
    /\ Len(payload) <= MAX_EMBEDS

\* C6: in a payload no embed object occurs twice and no field occurs twice,
\* and when the embed cap was not hit every field derived from the
\* categories occurs exactly once.
C6_NoLossNoDuplication ==
    (pc = "done" /\ payload # <<>>) =>
        LET fields == FieldsOf(payload)
        IN  /\ \A i, j \in DOMAIN all_embeds :
                  i # j => all_embeds[i] # all_embeds[j]
            /\ \A i, j \in DOMAIN fields :
                  i # j => fields[i].name # fields[j].name
            /\ warnings = 0 =>
                  \A s \in Statuses : \A k \in DOMAIN derived[s] :
                      Cardinality({ i \in DOMAIN fields :
                                      /\ fields[i].name.status = s
                                      /\ fields[i].name.cont = k - 1
                                      /\ fields[i].value = derived[s][k] }) = 1

\* a str without its last character
DropLast(s) ==
    IF s[Len(s)].n = 1 THEN SubSeq(s, 1, Len(s) - 1)
    ELSE [ s EXCEPT ![Len(s)].n = @ - 1 ]

\* the text of a block, its lines joined by a newline: shows_text without
\* the "\n" that ends it
BlockText == DropLast(block_text)

\* a category has just been split into chunks (line 403)
JustSplit == pc = "chunk" /\ chunk_idx = 1

\* C7 as stated: the values of the fields derived from a split category,
\* joined in order with a newline, are the text of the category, every line
\* once, in order and unchanged.
C7_ChunksReproduceText ==
    JustSplit => JoinWith(derived[order[status_idx]], Newline) = BlockText

\* lines[i..j] joined by a newline
JoinLines(lines, i, j) == JoinWith(SubSeq(lines, i, j), Newline)

RECURSIVE GroupsGive(_, _, _, _)
\* The lines from lines[i] on fall into groups of lines that follow one
\* another, one group for each of the values from values[k] on: the value is
\* the lines of its group joined by a newline, without the whitespace at its
\* start and at its end, or "No details available" when nothing remains.
GroupsGive(lines, i, values, k) ==
    IF k > Len(values) THEN i > Len(lines)
    ELSE \E j \in i .. Len(lines) :
           /\ OrNoDetails(Strip(JoinLines(lines, i, j))) = values[k]
           /\ GroupsGive(lines, j + 1, values, k + 1)

\* C7, amended: the values of the fields derived from a split category are,
\* in output order, the texts of groups of lines of the category that follow
\* one another, every line in one group and in order, the lines of a group
\* joined by a newline; of each text the whitespace at its start and at its
\* end is removed, and "No details available" stands for a text of which
\* nothing remains.
C7_ValuesAreStrippedGroups ==
    JustSplit =>
        GroupsGive(SplitOn(BlockText, Newline), 1, derived[order[status_idx]], 1)

\* a category was split into several values that, joined by a newline, are
\* not its text: whitespace was removed
C7_Witness ==
    /\ JustSplit
    /\ Len(chunks) >= 2
    /\ JoinWith(derived[order[status_idx]], Newline) # BlockText

\* C8: once ten embeds are closed and a field does not fit, packing stops:
\* no field is added to any embed and no embed is opened or closed any more.
C8_StopsAtCap ==
    [][ warnings > 0 => (embeds' = embeds /\ all_embeds' = all_embeds) ]_vars

\* C9: the value returned to the caller tells whether fields were dropped:
\* true when the embed cap was hit, false when every field was packed.
C9_TruncationReturned ==
    pc = "done" => (ret = (warnings > 0))

\* C10: in every state of the packing loop and in the payload every embed
\* has at most 25 fields, and its title, description and field names and
\* values together have at most 6000 characters.
C10_EmbedWithinLimits ==
    /\ \A i \in DOMAIN embeds :
          /\ Len(embeds[i].fields) <= MAX_FIELDS_PER_EMBED
          /\ EmbedChars(embeds[i]) <= MAX_CHARS_PER_EMBED
    /\ \A i \in DOMAIN payload :
          /\ Len(payload[i].fields) <= MAX_FIELDS_PER_EMBED
          /\ EmbedChars(payload[i]) <= MAX_CHARS_PER_EMBED

----------------------------------------------------------------------------
(* Properties of track_library_changes, checked under DiffSpec *)

\* the items and the episode counts stored for the library when the call began
GivenItems ==
    IF library_key \in DOMAIN given_sizes THEN given_sizes[library_key].items
    ELSE EmptyDict

GivenEpisodes ==
    IF library_key \in DOMAIN given_sizes THEN given_sizes[library_key].episodes
    ELSE EmptyDict

GivenItemOrder ==
    IF library_key \in DOMAIN given_sizes THEN given_sizes[library_key].item_order
    ELSE <<>>

CurrentTitles == { current_data[i].title : i \in DOMAIN current_data }

\* an episode count that is missing counts as 0
CountOf(item) == IF "episode_count" \in DOMAIN item THEN item.episode_count ELSE 0

StoredCount(title) == IF title \in DOMAIN GivenEpisodes THEN GivenEpisodes[title] ELSE 0

\* the item has the size and the episode count that are stored for its title
SameAsStored(item) ==
    /\ item.title \in DOMAIN GivenItems
    /\ item.size_gb = GivenItems[item.title]
    /\ CountOf(item) = StoredCount(item.title)

\* the returned records of a title, by type
HasRecord(title, type) ==
    \E k \in DOMAIN diff_ret.item_changes :
        /\ diff_ret.item_changes[k].title = title
        /\ diff_ret.item_changes[k].type = type

HasAnyRecord(title) ==
    \E k \in DOMAIN diff_ret.item_changes : diff_ret.item_changes[k].title = title

\* what the returned records must be, for the stored items of the call
Complete ==
    \A t \in Titles :
        /\ (t \in CurrentTitles /\ t \notin DOMAIN GivenItems) => HasRecord(t, "NEW")
        /\ (t \in DOMAIN GivenItems /\ t \notin CurrentTitles) => HasRecord(t, "REMOVED")
        /\ (/\ t \in CurrentTitles
            /\ \A i \in DOMAIN current_data :
                  current_data[i].title = t => SameAsStored(current_data[i]))
           => ~HasAnyRecord(t)

\* C3 as stated: for any stored and current items of a library, a title
\* that only the current items have is returned as NEW, a title that only
\* the stored items have is returned as REMOVED, and a title that both have
\* with the same size and episode count is not returned.
C3_Completeness == diff_pc = "done" => Complete

\* C3, amended: the same, for a library whose stored items are not empty;
\* with no stored items the call is a first run and returns no record.
C3_CompletenessAfterFirstRun ==
    (diff_pc = "done" /\ DOMAIN GivenItems # {}) => Complete

\* a call other than a first run has returned a NEW and a REMOVED record
C3_Witness ==
    /\ diff_pc = "done"
    /\ DOMAIN GivenItems # {}
    /\ \E t \in Titles : t \notin DOMAIN GivenItems /\ HasRecord(t, "NEW")
    /\ \E t \in Titles : t \notin CurrentTitles /\ HasRecord(t, "REMOVED")

\* the record that the rule of precedence gives an item whose title is stored
ExpectedKind(item) ==
    LET dc == CountOf(item) - StoredCount(item.title)
        dv == FloatSub(item.size_gb, GivenItems[item.title])
        epsilon == FloatOf(1)
    IN  IF dc > 0 THEN << << item.title, "NEW_EPISODES" >> >>
        ELSE IF dc < 0 THEN << << item.title, "REMOVED_EPISODES" >> >>
        ELSE IF FloatLess(epsilon, FloatAbs(dv))
             THEN << << item.title, "QUALITY_CHANGE" >> >>
        ELSE <<>>

\* the records made so far for current items whose title is stored
RecordsOfStored ==
    LET OfStored(r) == r.title \in DOMAIN GivenItems /\ r.type # "REMOVED"
        recs == SelectSeq(item_changes, OfStored)
    IN  [ k \in DOMAIN recs |-> << recs[k].title, recs[k].type >> ]

\* C4: every current item whose title is stored yields, in the order of the
\* items, the one record of the precedence: NEW_EPISODES when the episode
\* count grew, whatever the sizes; else REMOVED_EPISODES when it fell; else
\* QUALITY_CHANGE when the difference of the two sizes, a float, is more than
\* the float 0.01 in absolute value; else none.  A missing episode count is
\* 0, and no title has more records than items.
C4_ClassificationPrecedence ==
    diff_pc # "idle" =>
        /\ RecordsOfStored =
              Flatten([ i \in 1..(item_idx - 1) |->
                          IF current_data[i].title \in DOMAIN GivenItems
                          THEN ExpectedKind(current_data[i]) ELSE <<>> ])
        /\ \A t \in Titles :
              Cardinality({ k \in DOMAIN item_changes : item_changes[k].title = t })
                <= IF t \in CurrentTitles
                   THEN Cardinality({ i \in DOMAIN current_data : current_data[i].title = t })
                   ELSE 1

\* a show gained episodes and changed its size, a show without an episode
\* count was compared, and the call returned
C4_Witness ==
    /\ diff_pc = "done"
    /\ \E k \in DOMAIN diff_ret.item_changes :
          /\ diff_ret.item_changes[k].type = "NEW_EPISODES"
          /\ Abs(diff_ret.item_changes[k].change) > 1
    /\ \E i \in DOMAIN current_data :
          /\ "episode_count" \notin DOMAIN current_data[i]
          /\ current_data[i].title \in DOMAIN GivenItems
          /\ library_type = "show"

\* the current items are the stored ones
SameSnapshot ==
    /\ \A i \in DOMAIN current_data : SameAsStored(current_data[i])
    /\ DOMAIN GivenItems \subseteq CurrentTitles

\* The comparison of TVStatusTracker.run depends on the text of the show and
\* on the cached entry of its title only: a show whose status word and date
\* are the cached ones is added to no category.
TvSameStatus ==
    \A title \in Titles, text \in TextContents, cached \in TextContents,
       first_run \in BOOLEAN :
        (/\ status_text(cached) = status_text(text)
         /\ date_str(cached) = date_str(text))
        => ChangeCategory(title, text,
                          [ t \in { title } |-> StatusEntry(cached) ],
                          first_run) = "None"

\* C5: a snapshot compared with itself yields nothing: the call with the
\* stored items and episode counts as current items, an empty library
\* included, returns no record, and a show whose status word and date are
\* the cached ones is added to no category of changes.
C5_Idempotence ==
    (diff_pc = "done" /\ SameSnapshot) =>
        /\ diff_ret.item_changes = <<>>
        /\ TvSameStatus

\* the call has returned for current items that are the stored ones, with
\* an item whose size is stored
C5_Witness ==
    /\ diff_pc = "done"
    /\ SameSnapshot
    /\ current_data # <<>>
    /\ diff_ret.item_changes = <<>>

----------------------------------------------------------------------------
(* Further properties of notify_tv_status_updates, checked under Spec *)

\* The least number of fields that hold lines of the given lengths in order,
\* each value (its lines joined by a newline) of at most 1024 characters: a
\* line joins the value being filled whenever the joined value stays within
\* the limit.  used is the length of the value being filled, -1 when it has
\* no line yet.
RECURSIVE MinChunks(_, _, _)
MinChunks(lens, i, used) ==
    IF i > Len(lens) THEN (IF used >= 0 THEN 1 ELSE 0)
    ELSE IF used < 0 THEN MinChunks(lens, i + 1, lens[i])
    ELSE IF used + 1 + lens[i] <= MAX_FIELD_VALUE
         THEN MinChunks(lens, i + 1, used + 1 + lens[i])
         ELSE 1 + MinChunks(lens, i + 1, lens[i])

\* the lengths of the lines of a text
LineLens(text) ==
    LET lines == SplitOn(text, Newline)
    IN  [ i \in DOMAIN lines |-> StrLen(lines[i]) ]

\* C11: a category whose lines, joined by a newline, have at most 1024
\* characters becomes one field, and a longer one is split at line
\* boundaries into the least possible number of values of at most 1024
\* characters: 50 lines of 40 characters give 2 fields.
C11_MinimalChunks ==
    JustSplit =>
        LET lens == LineLens(BlockText)
        IN  (\A i \in DOMAIN lens : lens[i] <= MAX_FIELD_VALUE) =>
                /\ Len(chunks) = MinChunks(lens, 1, -1)
                /\ \A k \in DOMAIN chunks : StrLen(chunks[k]) <= MAX_FIELD_VALUE

\* C12: every embed of the payload holds at least one field.
C12_NoEmptyEmbed ==
    \A i \in DOMAIN payload : payload[i].fields # <<>>

----------------------------------------------------------------------------
(* Properties of TVStatusTracker.run, checked under TvSpec *)

\* no category holds a show
NoTvChanges == \A s \in Statuses : tv_changes[s] = <<>>

\* the libraries have been read from a cache file in the given state
ReadingWith(state) == tv_pc = "shows" /\ cache_file.state = state

\* C13: On a first run nothing is reported per item: the tracker adds no
\* show to any change category when tv_status_cache.json does not exist, and
\* track_library_changes returns no change when the library has no stored
\* item.
C13_FirstRunReportsNothing ==
    /\ tv_is_first_run => NoTvChanges
    /\ (diff_pc = "done" /\ DOMAIN GivenItems = {}) => diff_ret.item_changes = <<>>

\* C15: Snapshot writes are atomic: whatever happens during the write of
\* tv_status_cache.json, the file is afterwards the complete old snapshot or
\* the complete new one, never an empty or half-written file.
C15_AtomicWrite ==
    [][ cache_file' = cache_file \/ cache_file' = CacheOf(tv_current_status) ]_vars

\* C16: A cache file that exists but cannot be parsed is treated exactly like
\* a missing one: the previous snapshot is empty, the run is a first run and
\* the first-run policy applies, so that no show is reported.
C16_UnreadableIsFirstRun ==
    ReadingWith("corrupt") =>
        /\ tv_previous_status = EmptyDict
        /\ tv_is_first_run
        /\ NoTvChanges

----------------------------------------------------------------------------
(* Further properties of track_library_changes, checked under DiffSpec *)

\* the entry of the library in the mapping after the call
StoredEntry == previous_sizes[library_key]

\* the entry holds the item with its size and, for a show, its episode count
Holds(entry, item) ==
    /\ item.title \in DOMAIN entry.items
    /\ entry.items[item.title] = item.size_gb
    /\ library_type = "show" =>
         /\ item.title \in DOMAIN entry.episodes
         /\ entry.episodes[item.title] = EpisodeCount(library_type, item)

\* track_library_changes over the same current_data, with the entry as the
\* previous snapshot, returns no change
NextRunSilent(entry) ==
    \/ DOMAIN entry.items = {}
    \/ /\ \A i \in DOMAIN current_data :
            ClassifyItem(library_type, current_data[i], entry.items, entry.episodes) = <<>>
       /\ RemovedFrom(entry.item_order, library_type, current_data, entry.items,
                      entry.episodes) = <<>>

\* C14: After a completed run the stored snapshot is exactly the snapshot
\* observed in that run: it holds every observed item with its current size
\* and count, holds no item that was not observed, and a following run over
\* the unchanged source reports nothing.
C14_StoredIsObserved ==
    diff_pc = "done" =>
        /\ \A i \in DOMAIN current_data : Holds(StoredEntry, current_data[i])
        /\ DOMAIN StoredEntry.items = CurrentTitles
        /\ NextRunSilent(StoredEntry)

\* C18: track_library_changes does not modify the previous-snapshot mapping
\* that it was given: the mapping is at every point of the call the one that
\* was loaded at the start of the run.
C18_PreviousImmutable == previous_sizes = given_sizes

\* the change records that the call returned
Records == { diff_ret.item_changes[i] : i \in DOMAIN diff_ret.item_changes }

\* previous_size is None exactly in the NEW records, whose change is the size
NewShape(r) ==
    /\ r.previous_size = None <=> r.type = "NEW"
    /\ r.type = "NEW" => r.change = r.current_size

\* a record that is not NEW carries both sizes and their difference
DeltaShape(r) ==
    r.type # "NEW" =>
        /\ r.previous_size # None
        /\ r.current_size # None
        /\ r.change = r.current_size - r.previous_size

\* current_size 0 with change == -previous_size
ZeroedShape(r) ==
    /\ r.previous_size # None
    /\ r.current_size = 0
    /\ r.change = 0 - r.previous_size

\* C20 (as stated): previous_size is None if and only if the type is NEW, and
\* current_size is 0 with change == -previous_size if and only if the type is
\* REMOVED; the other kinds carry both sizes and change == current_size -
\* previous_size.
C20_RecordShape ==
    diff_pc = "done" =>
        \A r \in Records :
            /\ NewShape(r)
            /\ DeltaShape(r)
            /\ ZeroedShape(r) <=> r.type = "REMOVED"

\* C20 (amended): previous_size is None if and only if the type is NEW; a
\* REMOVED record has current_size 0 and change == -previous_size; every
\* record that is not NEW carries both sizes and change == current_size -
\* previous_size.  An item that is present with size 0 gives a record of
\* another kind with current_size 0.
C20_RecordShapeOneWay ==
    diff_pc = "done" =>
        \A r \in Records :
            /\ NewShape(r)
            /\ DeltaShape(r)
            /\ r.type = "REMOVED" => ZeroedShape(r)

\* a call that returned a REMOVED record and the record of a show that is
\* present without episodes
C20_Witness ==
    /\ diff_pc = "done"
    /\ \E r \in Records : r.type = "REMOVED"
    /\ \E r \in Records : r.type = "REMOVED_EPISODES" /\ ZeroedShape(r)

\* the records of cs whose sort key is k, in the order of cs
WithKey(cs, k) ==
    LET HasKey(x) == SortKey(x) = k IN SelectSeq(cs, HasKey)

Keys(cs) == { SortKey(cs[i]) : i \in DOMAIN cs }

\* adjacent records are in the order of the kind priority and, within a kind,
\* of descending absolute change
InReportOrder(cs) ==
    \A i \in 1 .. Len(cs) - 1 :
        \/ Priority(cs[i].type) < Priority(cs[i + 1].type)
        \/ /\ Priority(cs[i].type) = Priority(cs[i + 1].type)
           /\ ~FloatLess(FloatAbs(ChangeFloat(cs[i])), FloatAbs(ChangeFloat(cs[i + 1])))

\* the list with its first two items exchanged
SwapFirstTwo(data) ==
    IF Len(data) < 2 THEN data
    ELSE << data[2], data[1] >> \o SubSeq(data, 3, Len(data))

\* the records that the call returns for the items read in the order of data
ChangesOf(data) ==
    IF DOMAIN GivenItems = {} THEN <<>>
    ELSE Flatten([ i \in DOMAIN data |->
                     ClassifyItem(library_type, data[i], GivenItems, GivenEpisodes) ])
         \o RemovedFrom(GivenItemOrder, library_type, data, GivenItems, GivenEpisodes)

\* the report holds the returned records, every one as often as returned
SameRecords ==
    /\ Len(diff_sorted) = Len(diff_ret.item_changes)
    /\ \A k \in Keys(diff_ret.item_changes) \cup Keys(diff_sorted) :
         WithKey(diff_sorted, k) = WithKey(diff_ret.item_changes, k)

\* C19 (as stated): the records of the report are ordered by the kind
\* priority and, within a kind, by descending absolute change, and this
\* order does not depend on the order in which the items were read.
C19_ReportOrder ==
    diff_pc = "sorted" =>
        /\ InReportOrder(diff_sorted)
        /\ sorted_changes(ChangesOf(SwapFirstTwo(current_data))) = diff_sorted

\* C19 (amended): the report holds the returned records ordered by the kind
\* priority and, within a kind, by descending absolute change, the change
\* being the float that the subtraction of the sizes gives; records of the
\* same kind and the same absolute change keep the order in which they were
\* returned, which follows the order in which the items were read.
C19_ReportOrderStable ==
    diff_pc = "sorted" =>
        /\ InReportOrder(diff_sorted)
        /\ SameRecords

\* a report of two records of one kind whose changes differ in absolute
\* value and were returned in ascending order
C19_Witness ==
    /\ diff_pc = "sorted"
    /\ Len(diff_sorted) = 2
    /\ diff_sorted[1].type = diff_sorted[2].type
    /\ Abs(diff_sorted[1].change) > Abs(diff_sorted[2].change)
    /\ diff_ret.item_changes[1] = diff_sorted[2]

----------------------------------------------------------------------------
(* Properties of trigger_run and the scheduler, checked under RunSpec *)

\* the number of executions of run_update([service]) in progress
RunningOf(service) ==
    Cardinality({ r \in Requests :
                    threads[r].pc = "running" /\ threads[r].service = service })
    + (IF sched_job = service THEN 1 ELSE 0)

\* C17: At most one run of a service is in progress at any time, whatever
\* the interleaving of trigger_run requests and scheduler jobs.
C17_AtMostOneRun == \A service \in Services : RunningOf(service) <= 1

----------------------------------------------------------------------------
(* Order and names of the fields of notify_tv_status_updates, checked      *)
(* under Spec                                                              *)

\* the place of a category in the display order
OrderIndex(status) == CHOOSE i \in DOMAIN order : order[i] = status

\* the block of a field and the index of its chunk in the block
FieldPos(field) == << OrderIndex(field.name.status), field.name.cont >>

\* C21: Reading the emitted batches in sequence and the fields of each batch
\* in sequence gives the blocks in the display order and, within one block,
\* the chunks in increasing chunk index; no field of a later block precedes
\* a field of an earlier block.
C21_FieldsInOrder ==
    LET fs == FieldsOf(payload)
    IN  \A i \in 1 .. Len(fs) - 1 : TupleLess(FieldPos(fs[i]), FieldPos(fs[i + 1]))

\* len(f"{block.name} (cont. {k})"[:256]), block.name being the untruncated
\* name "<status name> (<number of shows>)" of the first chunk
ContNameLen(status, n, k) ==
    Min(MAX_FIELD_NAME, status_names_len(status) + 3 + Digits(n) + 9 + Digits(k))

\* C23: The first chunk of a split block keeps the block's name, cut at 256
\* characters, and the k-th following chunk is named "{block.name} (cont. k)"
\* for k = 1, 2, ..., cut at 256 characters, block.name being the full name
\* used for the first chunk.
C23_ContinuationNames ==
    LET fs == FieldsOf(payload)
    IN  \A i \in DOMAIN fs :
          LET name == fs[i].name
              n == Len(changes[name.status])
          IN  IF name.cont = 0
              THEN name = field_name(name.status, n)
              ELSE /\ name.count = n
                   /\ name.len = ContNameLen(name.status, n, name.cont)

\* the step opens a new embed for a field
OpensEmbed == Len(embeds) >= 1 /\ Len(embeds') = Len(embeds) + 1

\* an embed holds 25 fields, or its characters and those of a field are more
\* than 6000
NoRoomFor(e, field) ==
    \/ Len(e.fields) >= MAX_FIELDS_PER_EMBED
    \/ EmbedChars(e) + FieldSize(field) > MAX_CHARS_PER_EMBED

\* the payload of a run that did not reach the embed cap is the greedy
\* packing of its fields: no field that opens an embed had room in the
\* embed before it
GreedyEmbeds(sent) ==
    \A e \in 1 .. Len(sent) - 1 : NoRoomFor(sent[e], sent[e + 1].fields[1])

\* 30 fields of 200 characters: the value of every field, or its name and
\* its value together
ThirtyFields(sent) ==
    LET fs == FieldsOf(sent)
    IN  /\ Len(fs) = 30
        /\ \/ \A i \in DOMAIN fs : StrLen(fs[i].value) = 200
           \/ \A i \in DOMAIN fs : FieldSize(fs[i]) = 200

\* the number of fields of every embed
FieldCounts(sent) == [ e \in DOMAIN sent |-> Len(sent[e].fields) ]

\* C24: Batches are filled greedily: a new batch is opened for a field only
\* when the current batch holds 25 fields or the field would take its
\* characters over 6000, and the batches of a run are the greedy packing of
\* its fields; 30 fields of 200 characters are packed into 2 batches of 25
\* and 5 fields.
C24_GreedyBatches ==
    [][ /\ OpensEmbed =>
             NoRoomFor(embeds[current_embed], embeds'[Len(embeds')].fields[1])
        /\ (pc' = "done" /\ warnings' = 0 /\ payload' # <<>>) =>
               /\ GreedyEmbeds(payload')
               /\ ThirtyFields(payload') => FieldCounts(payload') = << 25, 5 >> ]_vars

\* a run has posted 30 fields of 200 characters, and the first of its embeds
\* had room for the characters of the field that opens the second
C24_Witness ==
    /\ pc = "done"
    /\ warnings = 0
    /\ payload # <<>>
    /\ ThirtyFields(payload)
    /\ EmbedChars(payload[1]) + FieldSize(payload[2].fields[1]) <= MAX_CHARS_PER_EMBED

----------------------------------------------------------------------------
(* Properties of the formatting of the changes, checked under RenderSpec *)

\* the lines of the text that render a record
RecordLines ==
    LET IsRecord(l) == l.kind = "record" IN SelectSeq(changes_text, IsRecord)

\* C22: Every change record of a library is rendered as exactly one line of
\* the text, none is dropped or summarised away, and the lines of a type keep
\* the order of the records.
C22_OneLinePerRecord ==
    render_pc = "done" =>
        /\ changes_text = RecordLines
        /\ RecordLines = [ i \in DOMAIN lib_changes |-> RecordLine(lib_changes[i]) ]

----------------------------------------------------------------------------
(* Claims about run_size_overlay_service *)

\* the entry of the library in previous_sizes, if it has one
StoredItems ==
    LET key == LibraryKey(sr_library.type, library_title)
    IN  IF key \in DOMAIN sr_previous_sizes THEN sr_previous_sizes[key].items
        ELSE EmptyDict

\* the run reports the removal of the title
ReportedRemoved(reported, title) ==
    \E i \in DOMAIN reported :
        reported[i].type = "REMOVED" /\ reported[i].title = title

\* C27: when the scan of a library returns no items, every item of its stored
\* entry is reported as REMOVED by that run and the entry is replaced by that
\* of the empty observation
C27_EmptyLibraryRemovals ==
    [][ sr_pc = "library" /\ sr_library.scan = <<>> =>
          /\ \A title \in DOMAIN StoredItems : ReportedRemoved(sr_reported', title)
          /\ StoredItems' = EmptyDict ]_vars

\* the items that line 558 loaded for the library
LoadedItems ==
    LET key == LibraryKey(sr_library.type, library_title)
    IN  IF key \in DOMAIN sr_loaded THEN sr_loaded[key].items ELSE EmptyDict

\* C29: a run that found a stored snapshot of its library and detects no
\* change in it dispatches no notification
C29_OnlyChangesReported ==
    sr_pc = "done" /\ LoadedItems # EmptyDict /\ sr_reported = <<>>
        => sr_notification = "none"

\* the notification and the return value of the run had previous_sizes.json
\* been written
NotificationIfSaved ==
    Notification(sr_previous_sizes = EmptyDict, sr_changes # <<>>, sr_created_files)

\* C25: when save_current_sizes fails, the notification that is dispatched
\* and the value that the run returns are those of the run whose write
\* succeeded
C25_WriteFailureNotMasking ==
    sr_pc = "done" /\ sr_saved = "failed" =>
        /\ sr_notification = NotificationIfSaved
        /\ sr_ret = (IF NotificationIfSaved = "none" THEN TRUE ELSE sr_success)

----------------------------------------------------------------------------
(* Claims about the categories of TVStatusTracker.run *)

\* the category that bears the name of the status of an overlay text
CategoryOfWords(words) ==
    CASE words = "AIRING" -> "AIRING"
      [] words = "SEASON PREMIERE" -> "SEASON_PREMIERE"
      [] words = "SEASON FINALE" -> "SEASON_FINALE"
      [] words = "MID SEASON FINALE" -> "MID_SEASON_FINALE"
      [] words = "FINAL EPISODE" -> "FINAL_EPISODE"
      [] words = "R E T U R N I N G" -> "RETURNING"
      [] words = "E N D E D" -> "ENDED"
      [] words = "C A N C E L L E D" -> "CANCELLED"
      [] OTHER -> "None"

\* the step added the last show to the category key and to no other
AddedOnlyTo(key) ==
    \A k \in Statuses :
        tv_changes'[k] =
            IF k = key
            THEN Append(tv_changes[k],
                        ChangeEntry(tv_last'.title,
                                    [ words |-> tv_last'.words, date |-> tv_last'.date ],
                                    tv_previous_status))
            ELSE tv_changes[k]

\* C26: a show of the previous cache whose status differs is added to the
\* category of its new status and to no other, and one of which only the
\* date differs, the new one not being empty, to DATE_CHANGED only
C26_CategoryOfNewStatus ==
    [][ /\ tv_pc = "shows"
        /\ tv_processed' = tv_processed + 1
        /\ tv_last'.title \in DOMAIN tv_previous_status
        /\ CategoryOfWords(tv_last'.words) # "None"
        => LET prev == tv_previous_status[tv_last'.title]
           IN  IF prev.text.words # tv_last'.words
               THEN AddedOnlyTo(CategoryOfWords(tv_last'.words))
               ELSE prev.date # tv_last'.date /\ tv_last'.date # NoDate
                    => AddedOnlyTo("DATE_CHANGED") ]_vars

\* the step has added the show to a category as a new show
AddedAsNew(title) ==
    \E k \in Statuses :
        /\ Len(tv_changes'[k]) = Len(tv_changes[k]) + 1
        /\ tv_changes'[k][Len(tv_changes'[k])].title = title
        /\ tv_changes'[k][Len(tv_changes'[k])].prev_status = "NEW"

\* C28: a show that a cache file has held, and of which no lookup since has
\* given another text than the one stored, is not added as a new show when a
\* lookup gives that text
C28_NoSpuriousNew ==
    [][ /\ tv_pc = "shows"
        /\ tv_processed' = tv_processed + 1
        /\ tv_last'.title \in DOMAIN tv_known
        /\ tv_last'.words # "None"
        /\ tv_known[tv_last'.title]
             = StatusEntry([ words |-> tv_last'.words, date |-> tv_last'.date ])
        => ~AddedAsNew(tv_last'.title) ]_vars

----------------------------------------------------------------------------
(* The running flag of trigger_run, checked under RunSpec *)

\* C30: while run_status[service] is False, no thread that trigger_run
\* started for the service is executing run_update
C30_IdleFlagMeansNoRun ==
    \A r \in Requests :
        threads[r].pc = "running" => run_status[threads[r].service]

====
